---- MODULE Spec2Model ----
(***************************************************************************)
(* Submission lifecycle of the staff console: AdminDashboard.tsx           *)
(* (delivery intake, quote manager, review gate) as a state machine.      *)
(*                                                                         *)
(* The dashboard receives the submission list and the callbacks onDeliver, *)
(* onApprove, onReject, onAssign, onRefresh from its parent, and writes    *)
(* the quote through db.submissions.update.  The parent and the store are  *)
(* not part of the component: they are modelled from the store contract    *)
(* "update(id, partialFields)" (StoreUpdate) and the review-gate           *)
(* transitions.  Everything else is translated from the component.        *)
(***************************************************************************)
EXTENDS Integers, Sequences, FiniteSets, TLC

VARIABLES
    user,             \* prop user: [role, editorRecordId]
    submissions,      \* prop submissions: id -> Submission record
    uploads,          \* handleUpload invocations, in call order
    showOnlyMine,     \* useState(user.role === 'editor')
    statusFilter,     \* useState('all')
    editingQuoteId,   \* useState(null)
    quoteAmount,      \* useState(''), a string (sequence of characters)
    quoteTypedFor,    \* history: the id in editingQuoteId when quoteAmount was entered last
    isUpdatingQuote,  \* useState(false)
    quoteWrite,       \* the db.submissions.update call awaited by handleUpdateQuote,
                      \* and, once it succeeded, the quotedAmount it replaced
    schemaError,      \* useState(null)
    rejectingId,      \* useState(null)
    rejectNote,       \* useState('')
    noteTypedFor,     \* history: the id in rejectingId when rejectNote was entered last
    issued,           \* the outward call made by the latest handler step
    viewingDetail,    \* useState(null): the submission handed to DetailModal
    onTriggerCheckout,\* DetailModal prop onTriggerCheckout is passed by the host
    activeStage,      \* DetailModal useState: 'remove' | 'add'
    sliderPos,        \* DetailModal useState(50)
    isDragging,       \* DetailModal useRef(false)
    pointer,          \* the pointer event DetailModal handled last, with the container rect
    isDownloading,    \* DetailModal useState(false)
    download,         \* the handleDownload call in flight or finished last
    allMessages,      \* useState([])
    lastReadMap,      \* useState({}): id -> last-read timestamp, 0 when absent
    interval,         \* the setInterval of the mount effect: "none", "set" or "cleared"
    timer,            \* time units since the interval was set or fired last
    mountIds,         \* ids of the submissions prop of the render that ran the mount effect
    listIds,          \* ids of the current submissions prop
    markers,          \* localStorage chat_last_read_{id}: id -> timestamp, 0 when absent
    messageLog,       \* the messages of the store, as fetchAll returns them
    loads,            \* loadAllMessages calls awaiting fetchAll
    chattingSubmission \* useState(null): id of the submission whose ChatBoard is open

\* State of the DetailModal and of the messaging tracker.
downloadVars == <<isDownloading, download>>
viewerVars == <<viewingDetail, onTriggerCheckout, activeStage, sliderPos, isDragging, pointer,
                downloadVars>>
pollVars == <<interval, timer, mountIds, listIds, markers, messageLog, loads,
              chattingSubmission>>
trackerVars == <<allMessages, lastReadMap, pollVars>>

vars == <<user, submissions, uploads, showOnlyMine, statusFilter, editingQuoteId,
          quoteAmount, quoteTypedFor, isUpdatingQuote, quoteWrite, schemaError, rejectingId,
          rejectNote, noteTypedFor, issued, viewerVars, trackerVars>>

-----------------------------------------------------------------------------
(* Bounds *)

\* The largest clientX of a pointer event.
MaxClientX == 7

\* Messages the message log holds at most.
MaxMessages == 3

\* loadAllMessages calls that await fetchAll at the same time, at most.
MaxLoads == 2

\* setInterval(loadAllMessages, 5000), in seconds.
PollInterval == 5

\* handleUpload calls in one run
MaxUploads == 3

-----------------------------------------------------------------------------
(* Values *)

Ids == {"S1", "S2"}
Null == "null"

FURNITURE_BOTH == "FURNITURE_BOTH"
FLOOR_PLAN_CG == "FLOOR_PLAN_CG"
OTHER_PLAN == "OTHER"
Plans == {FURNITURE_BOTH, FLOOR_PLAN_CG, OTHER_PLAN}

Statuses == {"pending", "processing", "reviewing", "completed"}
PaymentStatuses == {"unpaid", "quote_pending", "paid"}
Stages == {"remove", "add", "single"}

EditorIds == {"E1"}
Users == { [role |-> "admin", editorRecordId |-> ""],
           [role |-> "editor", editorRecordId |-> "E1"] }

\* An absent URL (undefined); a present one is the public URL of a blob path.
NoUrl == <<>>
\* An absent quotedAmount (undefined); the code only tests its truthiness.
NoAmount == 0

Notes == {"", "redo"}

\* Strings the quote input can hold, as sequences of characters.
QuoteInputs == { <<>>, <<"a", "b">>, <<"0">>, <<"-", "5">>, <<"7">>, <<"5", "0">> }

\* No store call has been made by handleUpdateQuote.
NoWrite == [id |-> Null, amount |-> 0, result |-> "none", replaced |-> 0]

\* No submission is shown in the DetailModal.
NoDetail ==
    [id |-> Null, plan |-> "", status |-> "", paymentStatus |-> "", quotedAmount |-> 0,
     resultRemoveUrl |-> <<>>, resultAddUrl |-> <<>>, resultDataUrl |-> <<>>]

\* handleDownload was not called yet. phase is the await the call is at, or how
\* it ended; mounted tells whether the DetailModal that made the call is still
\* mounted; offered is the URL whose blob was offered as a file, opened the URL
\* given to window.open; refused tells whether handleDownload was called again
\* before the call ended.
NoDownload ==
    [url |-> <<>>, phase |-> "none", mounted |-> FALSE, offered |-> <<>>, opened |-> <<>>,
     refused |-> FALSE]

\* No pointer event was handled yet.
NoPointer == [kind |-> "none", clientX |-> 0, left |-> 0, width |-> 1]

NoCall == [op |-> "none", id |-> Null, note |-> "", amount |-> 0]
Call(op, id) == [op |-> op, id |-> id, note |-> "", amount |-> 0]

-----------------------------------------------------------------------------
(* The store and the parent's callbacks *)

\* update(id, partialFields): the named fields are replaced, the others kept.
StoreUpdate(subs, id, updates) ==
    [subs EXCEPT ![id] =
        [f \in DOMAIN @ |-> IF f \in DOMAIN updates THEN updates[f] ELSE @[f]]]

\* upload(path, bytes) -> publicUrl, path = results/{submissionId}_{stage}.jpg
PublicUrl(id, type) == <<"results", id, type>>

onDeliver(subs, id, updates) == StoreUpdate(subs, id, updates)
onApprove(subs, id) == StoreUpdate(subs, id, [status |-> "completed"])
onReject(subs, id) == StoreUpdate(subs, id, [status |-> "processing"])
onAssign(subs, id, editorId) == StoreUpdate(subs, id, [assignedEditorId |-> editorId])

-----------------------------------------------------------------------------
(* Messaging tracker: submissionChatInfo *)

SenderRoles == {"user", "admin"}
Timestamps == 1..2

\* A message of the log; submission_id "" is a message without one.
Messages == [submission_id : Ids \cup {""}, sender_role : SenderRoles, timestamp : Timestamps]

\* info[sId] before the first message of sId. lastMessage is the position of
\* the message object in allMessages, 0 while undefined.
NoInfo == [count |-> 0, lastMessage |-> 0, hasNew |-> FALSE]

\* Variant of ChatInfoStep: a message replaces lastMessage on an equal timestamp too.
ChatInfoStep_LatestOnTie(info, msgs, n, lastRead) ==
    LET msg == msgs[n]
        sId == msg.submission_id
    IN  IF sId = "" THEN info
        ELSE LET cur == info[sId]
                 replaces == cur.lastMessage = 0
                               \/ msg.timestamp >= msgs[cur.lastMessage].timestamp
             IN  [info EXCEPT ![sId] =
                    [count |-> cur.count + 1,
                     lastMessage |-> IF replaces THEN n ELSE cur.lastMessage,
                     hasNew |-> IF replaces
                                THEN msg.sender_role = "user" /\ msg.timestamp > lastRead[sId]
                                ELSE cur.hasNew]]

\* Variant of ChatInfoStep: hasNew does not look at the sender.
ChatInfoStep_AnySender(info, msgs, n, lastRead) ==
    LET msg == msgs[n]
        sId == msg.submission_id
    IN  IF sId = "" THEN info
        ELSE LET cur == info[sId]
                 replaces == cur.lastMessage = 0
                               \/ msg.timestamp > msgs[cur.lastMessage].timestamp
             IN  [info EXCEPT ![sId] =
                    [count |-> cur.count + 1,
                     lastMessage |-> IF replaces THEN n ELSE cur.lastMessage,
                     hasNew |-> IF replaces
                                THEN msg.timestamp > lastRead[sId]
                                ELSE cur.hasNew]]

\* The body of allMessages.forEach, applied to the n-th message.
ChatInfoStep(info, msgs, n, lastRead) ==
    LET msg == msgs[n]
        sId == msg.submission_id
    IN  IF sId = "" THEN info
        ELSE LET cur == info[sId]
                 replaces == cur.lastMessage = 0
                               \/ msg.timestamp > msgs[cur.lastMessage].timestamp
             IN  [info EXCEPT ![sId] =
                    [count |-> cur.count + 1,
                     lastMessage |-> IF replaces THEN n ELSE cur.lastMessage,
                     hasNew |-> IF replaces
                                THEN msg.sender_role = "user" /\ msg.timestamp > lastRead[sId]
                                ELSE cur.hasNew]]

RECURSIVE ChatInfoUpTo(_, _, _)
ChatInfoUpTo(msgs, lastRead, n) ==
    IF n = 0
    THEN [i \in Ids |-> NoInfo]
    ELSE ChatInfoStep(ChatInfoUpTo(msgs, lastRead, n - 1), msgs, n, lastRead)

\* useMemo over [allMessages, lastReadMap]; lastReadMap[sId] || 0 is the
\* entry of lastReadMap, 0 when there is none.
submissionChatInfo == ChatInfoUpTo(allMessages, lastReadMap, Len(allMessages))

-----------------------------------------------------------------------------
(* Derived values of a render *)

Truthy(url) == url # NoUrl

\* Variant of PaidOrQuoted: only a quote-gated order still before its quote is
\* kept out of the queue.
PaidOrQuoted_AnyButQuotePending(s) == s.paymentStatus # "quote_pending"

PaidOrQuoted(s) == s.paymentStatus = "paid" \/ s.paymentStatus = "quote_pending"

\* The ids of filteredSubmissions (the order is immaterial to the handlers).
filteredIds ==
    LET paid == {i \in listIds : PaidOrQuoted(submissions[i])}
        mine == IF showOnlyMine /\ user.editorRecordId # ""
                THEN {i \in paid : submissions[i].assignedEditorId = user.editorRecordId}
                ELSE paid
    IN  IF statusFilter = "comments"
        THEN {i \in mine : submissionChatInfo[i].count > 0}
        ELSE IF statusFilter \in {"all", "archive", "plans"}
        THEN mine
        ELSE {i \in mine : submissions[i].status = statusFilter}

\* Variants of canAct that drop one of its two conditions.
canAct_AnyStatus(sub) == user.role = "admin"
canAct_AnyRole(sub) == sub.status = "reviewing"

canAct(sub) == sub.status = "reviewing" /\ user.role = "admin"
isDone(sub) == sub.status = "completed"
isQuotePlan(sub) == sub.plan = FLOOR_PLAN_CG
\* Variant of quotePending: a completed submission keeps its quote controls.
quotePending_EvenWhenDone(sub) == isQuotePlan(sub) /\ sub.paymentStatus = "quote_pending"

quotePending(sub) == isQuotePlan(sub) /\ sub.paymentStatus = "quote_pending" /\ ~isDone(sub)

\* The drop zones of a row.
StagesOf(sub) == IF sub.plan = FURNITURE_BOTH THEN {"remove", "add"} ELSE {"single"}

\* The submissions prop as an array: the submissions of the list, in the order
\* of their ids.
SubmissionList == SelectSeq(<<"S1", "S2">>, LAMBDA i : i \in listIds)

\* submissionChatInfo[id]?.lastMessage?.timestamp || 0
LastMessageTimestamp(id) ==
    LET last == submissionChatInfo[id].lastMessage
    IN  IF last = 0 THEN 0 ELSE allMessages[last].timestamp

\* Variant of InsertSorted: the oldest conversation comes first.
InsertSorted_OldestFirst(sorted, id) ==
    LET before == {j \in 1..Len(sorted) :
                      LastMessageTimestamp(sorted[j]) <= LastMessageTimestamp(id)}
        n == Cardinality(before)
    IN  SubSeq(sorted, 1, n) \o <<id>> \o SubSeq(sorted, n + 1, Len(sorted))

\* One element more in an array sorted by (a, b) => timestamp(b) - timestamp(a):
\* the sort is stable, so the element goes behind those that are not older.
InsertSorted(sorted, id) ==
    LET before == {j \in 1..Len(sorted) :
                      LastMessageTimestamp(sorted[j]) >= LastMessageTimestamp(id)}
        n == Cardinality(before)
    IN  SubSeq(sorted, 1, n) \o <<id>> \o SubSeq(sorted, n + 1, Len(sorted))

RECURSIVE SortUpTo(_, _)
SortUpTo(seq, n) ==
    IF n = 0 THEN <<>> ELSE InsertSorted(SortUpTo(seq, n - 1), seq[n])

\* filteredSubmissions as the array the table is rendered from.
filteredSubmissions ==
    LET paid == SelectSeq(SubmissionList, LAMBDA i : PaidOrQuoted(submissions[i]))
        mine == IF showOnlyMine /\ user.editorRecordId # ""
                THEN SelectSeq(paid, LAMBDA i :
                                   submissions[i].assignedEditorId = user.editorRecordId)
                ELSE paid
    IN  IF statusFilter = "comments"
        THEN LET commented == SelectSeq(mine, LAMBDA i : submissionChatInfo[i].count > 0)
             IN  SortUpTo(commented, Len(commented))
        ELSE IF statusFilter \in {"all", "archive", "plans"}
        THEN mine
        ELSE SelectSeq(mine, LAMBDA i : submissions[i].status = statusFilter)

\* A full-screen overlay (DetailModal z-150, reject dialog z-200, schema error
\* z-300, the ChatBoard) covers the table; the schema error overlay also covers
\* the others.
ModalOpen ==
    \/ rejectingId # Null
    \/ schemaError # Null
    \/ viewingDetail # NoDetail
    \/ chattingSubmission # Null

RowClickable(id) == id \in filteredIds /\ ~ModalOpen

-----------------------------------------------------------------------------
(* Delivery intake: DeliveryDropZone.handleUpload *)

\* Variant of ResultUpdates: an add or single delivery does not fill resultDataUrl.
ResultUpdates_AddUrlOnly(type, publicUrl) ==
    IF type = "remove"
    THEN [resultRemoveUrl |-> publicUrl]
    ELSE [resultAddUrl |-> publicUrl]

\* updates.resultRemoveUrl, or updates.resultAddUrl and updates.resultDataUrl
ResultUpdates(type, publicUrl) ==
    IF type = "remove"
    THEN [resultRemoveUrl |-> publicUrl]
    ELSE [resultAddUrl |-> publicUrl, resultDataUrl |-> publicUrl]

\* Variant of NewStatus: one stage is enough for a two-stage plan.
NewStatus_EitherStage(submission, type) ==
    IF submission.plan = FURNITURE_BOTH
    THEN IF (type = "remove" \/ Truthy(submission.resultRemoveUrl))
            \/ (type = "add" \/ Truthy(submission.resultAddUrl))
         THEN "reviewing"
         ELSE submission.status
    ELSE "reviewing"

\* Variant of NewStatus: a completed single-result submission stays completed.
NewStatus_KeepsCompleted(submission, type) ==
    IF submission.plan = FURNITURE_BOTH
    THEN IF (type = "remove" \/ Truthy(submission.resultRemoveUrl))
            /\ (type = "add" \/ Truthy(submission.resultAddUrl))
         THEN "reviewing"
         ELSE submission.status
    ELSE IF submission.status = "completed" THEN "completed" ELSE "reviewing"

\* Variant of NewStatus: a delivery to a single-result submission already
\* under review sends it back to processing.
NewStatus_RedeliveryReopens(submission, type) ==
    IF submission.plan = FURNITURE_BOTH
    THEN IF (type = "remove" \/ Truthy(submission.resultRemoveUrl))
            /\ (type = "add" \/ Truthy(submission.resultAddUrl))
         THEN "reviewing"
         ELSE submission.status
    ELSE IF submission.status = "reviewing" THEN "processing" ELSE "reviewing"

\* newStatus, computed from the submission the drop zone was rendered with.
NewStatus(submission, type) ==
    IF submission.plan = FURNITURE_BOTH
    THEN IF (type = "remove" \/ Truthy(submission.resultRemoveUrl))
            /\ (type = "add" \/ Truthy(submission.resultAddUrl))
         THEN "reviewing"
         ELSE submission.status
    ELSE "reviewing"

\* Variant of DeliveryUpdates: the update carries both stage URLs, the other
\* stage's as the drop zone's submission has it.
DeliveryUpdates_BothStageUrls(submission, type, publicUrl) ==
    LET u == ResultUpdates(type, publicUrl)
    IN  [f \in {"status", "resultRemoveUrl", "resultAddUrl"} \cup DOMAIN u |->
            IF f = "status" THEN NewStatus(submission, type)
            ELSE IF f \in DOMAIN u THEN u[f]
            ELSE submission[f]]

\* updates: the URL field(s) of the stage and status.
DeliveryUpdates(submission, type, publicUrl) ==
    LET u == ResultUpdates(type, publicUrl)
    IN  [f \in DOMAIN u \cup {"status"} |->
            IF f = "status" THEN NewStatus(submission, type) ELSE u[f]]

\* The fields handleUpload reads of the submission its drop zone was rendered with.
Captured(sub) ==
    [plan |-> sub.plan, status |-> sub.status,
     resultRemoveUrl |-> sub.resultRemoveUrl, resultAddUrl |-> sub.resultAddUrl]

\* handleUpload(file): the reader and the blob upload are started; the
\* callback keeps the submission of the render that created it (here the
\* render current at the drop; a file chosen through the picker may carry an
\* older one, which only adds to the staleness modelled by the upload itself).
HandleUpload(id, type) ==
    /\ RowClickable(id)
    /\ type \in StagesOf(submissions[id])
    /\ Len(uploads) < MaxUploads
    /\ uploads' = Append(uploads, [id |-> id, type |-> type,
                                   submission |-> Captured(submissions[id]),
                                   blob |-> "pending", outcome |-> "running"])
    /\ issued' = NoCall
    /\ UNCHANGED <<viewerVars, trackerVars, user, submissions, showOnlyMine, statusFilter, editingQuoteId,
                   quoteAmount, quoteTypedFor, isUpdatingQuote, quoteWrite, schemaError,
                   rejectingId, rejectNote, noteTypedFor>>

\* await db.storage.upload(...) resolves: the updates are built and onDeliver is called.
UploadResolves(k) ==
    /\ k \in 1..Len(uploads)
    /\ uploads[k].blob = "pending"
    /\ LET u == uploads[k]
           updates == DeliveryUpdates(u.submission, u.type, PublicUrl(u.id, u.type))
       IN  /\ submissions' = onDeliver(submissions, u.id, updates)
           /\ issued' = Call("onDeliver", u.id)
    /\ uploads' = [uploads EXCEPT ![k].blob = "url", ![k].outcome = "delivered"]
    /\ UNCHANGED <<viewerVars, trackerVars, user, showOnlyMine, statusFilter, editingQuoteId, quoteAmount, quoteTypedFor,
                   isUpdatingQuote, quoteWrite, schemaError, rejectingId, rejectNote, noteTypedFor>>

\* Variant of UploadRejects: the error is caught and the delivery goes on
\* without a URL.
UploadRejects_StillDelivers(k) ==
    /\ k \in 1..Len(uploads)
    /\ uploads[k].blob = "pending"
    /\ LET u == uploads[k]
           updates == DeliveryUpdates(u.submission, u.type, NoUrl)
       IN  /\ submissions' = onDeliver(submissions, u.id, updates)
           /\ issued' = Call("onDeliver", u.id)
    /\ uploads' = [uploads EXCEPT ![k].blob = "error", ![k].outcome = "delivered"]
    /\ UNCHANGED <<viewerVars, trackerVars, user, showOnlyMine, statusFilter, editingQuoteId, quoteAmount, quoteTypedFor,
                   isUpdatingQuote, quoteWrite, schemaError, rejectingId, rejectNote, noteTypedFor>>

\* await db.storage.upload(...) rejects: try/finally has no catch, the error
\* leaves the callback and nothing after the await runs.
UploadRejects(k) ==
    /\ k \in 1..Len(uploads)
    /\ uploads[k].blob = "pending"
    /\ uploads' = [uploads EXCEPT ![k].blob = "error", ![k].outcome = "threw"]
    /\ issued' = NoCall
    /\ UNCHANGED <<viewerVars, trackerVars, user, submissions, showOnlyMine, statusFilter, editingQuoteId,
                   quoteAmount, quoteTypedFor, isUpdatingQuote, quoteWrite, schemaError,
                   rejectingId, rejectNote, noteTypedFor>>

-----------------------------------------------------------------------------
(* Review gate *)

\* Approve button: onClick={() => onApprove(sub.id)}
Approve(id) ==
    /\ RowClickable(id)
    /\ ~isDone(submissions[id])
    /\ canAct(submissions[id])
    /\ submissions' = onApprove(submissions, id)
    /\ issued' = Call("onApprove", id)
    /\ UNCHANGED <<viewerVars, trackerVars, user, uploads, showOnlyMine, statusFilter, editingQuoteId,
                   quoteAmount, quoteTypedFor, isUpdatingQuote, quoteWrite, schemaError,
                   rejectingId, rejectNote, noteTypedFor>>

\* Reject button: onClick={() => setRejectingId(sub.id)}
OpenReject(id) ==
    /\ RowClickable(id)
    /\ ~isDone(submissions[id])
    /\ canAct(submissions[id])
    /\ rejectingId' = id
    /\ issued' = NoCall
    /\ UNCHANGED <<viewerVars, trackerVars, user, submissions, uploads, showOnlyMine, statusFilter,
                   editingQuoteId, quoteAmount, quoteTypedFor, isUpdatingQuote, quoteWrite,
                   schemaError, rejectNote, noteTypedFor>>

\* textarea onChange={e => setRejectNote(e.target.value)}
SetRejectNote(note) ==
    /\ rejectingId # Null /\ schemaError = Null
    /\ rejectNote' = note
    /\ noteTypedFor' = rejectingId
    /\ issued' = NoCall
    /\ UNCHANGED <<viewerVars, trackerVars, user, submissions, uploads, showOnlyMine, statusFilter,
                   editingQuoteId, quoteAmount, quoteTypedFor, isUpdatingQuote, quoteWrite,
                   schemaError, rejectingId>>

\* Cancel button of the dialog: onClick={() => setRejectingId(null)}
CancelReject ==
    /\ rejectingId # Null /\ schemaError = Null
    /\ rejectingId' = Null
    /\ issued' = NoCall
    /\ UNCHANGED <<viewerVars, trackerVars, user, submissions, uploads, showOnlyMine, statusFilter,
                   editingQuoteId, quoteAmount, quoteTypedFor, isUpdatingQuote, quoteWrite,
                   schemaError, rejectNote, noteTypedFor>>

handleConfirmReject ==
    /\ rejectingId # Null /\ schemaError = Null
    /\ submissions' = onReject(submissions, rejectingId)
    /\ issued' = [op |-> "onReject", id |-> rejectingId, note |-> rejectNote, amount |-> 0]
    /\ rejectingId' = Null
    /\ rejectNote' = ""
    /\ noteTypedFor' = Null
    /\ UNCHANGED <<viewerVars, trackerVars, user, uploads, showOnlyMine, statusFilter, editingQuoteId,
                   quoteAmount, quoteTypedFor, isUpdatingQuote, quoteWrite, schemaError>>

-----------------------------------------------------------------------------
(* Quote manager: handleUpdateQuote *)

DigitChars == {"0", "1", "2", "3", "4", "5", "6", "7", "8", "9"}
DigitVal(c) ==
    CASE c = "0" -> 0 [] c = "1" -> 1 [] c = "2" -> 2 [] c = "3" -> 3 [] c = "4" -> 4
      [] c = "5" -> 5 [] c = "6" -> 6 [] c = "7" -> 7 [] c = "8" -> 8 [] c = "9" -> 9

\* The longest prefix of str made of digits.
RECURSIVE DigitPrefix(_)
DigitPrefix(str) ==
    IF str = <<>> \/ Head(str) \notin DigitChars
    THEN <<>>
    ELSE <<Head(str)>> \o DigitPrefix(Tail(str))

RECURSIVE DigitsValue(_)
DigitsValue(ds) ==
    IF ds = <<>> THEN 0
    ELSE 10 * DigitsValue(SubSeq(ds, 1, Len(ds) - 1)) + DigitVal(ds[Len(ds)])

RECURSIVE TrimLeft(_)
TrimLeft(str) == IF str # <<>> /\ Head(str) = " " THEN TrimLeft(Tail(str)) ELSE str

\* parseInt(string): leading blanks, an optional sign, then the leading
\* digits; NaN when there is no digit.
parseInt(str) ==
    LET s == TrimLeft(str)
        signed == s # <<>> /\ Head(s) \in {"-", "+"}
        ds == DigitPrefix(IF signed THEN Tail(s) ELSE s)
        v == DigitsValue(ds)
    IN  [isNaN |-> ds = <<>>,
         value |-> IF ds = <<>> THEN 0 ELSE IF signed /\ Head(s) = "-" THEN -v ELSE v]

\* The migration statement shown by the schema error overlay.
MigrationSql == "ALTER TABLE submissions ADD COLUMN IF NOT EXISTS \"quotedAmount\" bigint;"

\* The quote controls of a row are rendered and can be used.
QuoteControls(id) == RowClickable(id) /\ quotePending(submissions[id])

\* "Initialize Quote" / "Update Quote": onClick={() => setEditingQuoteId(sub.id)}
OpenQuoteEditor(id) ==
    /\ QuoteControls(id)
    /\ editingQuoteId # id
    /\ editingQuoteId' = id
    /\ issued' = NoCall
    /\ UNCHANGED <<viewerVars, trackerVars, user, submissions, uploads, showOnlyMine, statusFilter, quoteAmount, quoteTypedFor,
                   isUpdatingQuote, quoteWrite, schemaError, rejectingId, rejectNote, noteTypedFor>>

\* Amount input: onChange={(e) => setQuoteAmount(e.target.value)}
SetQuoteAmount(str) ==
    /\ editingQuoteId # Null
    /\ QuoteControls(editingQuoteId)
    /\ quoteAmount' = str
    /\ quoteTypedFor' = editingQuoteId
    /\ issued' = NoCall
    /\ UNCHANGED <<viewerVars, trackerVars, user, submissions, uploads, showOnlyMine, statusFilter, editingQuoteId,
                   isUpdatingQuote, quoteWrite, schemaError, rejectingId, rejectNote, noteTypedFor>>

\* Variant of handleUpdateQuote: only NaN is refused.
handleUpdateQuote_NaNOnly(id) ==
    LET amount == parseInt(quoteAmount) IN
    IF amount.isNaN
    THEN /\ issued' = Call("alert", id)
         /\ UNCHANGED <<viewerVars, trackerVars, user, submissions, uploads, showOnlyMine, statusFilter,
                        editingQuoteId, quoteAmount, quoteTypedFor, isUpdatingQuote, quoteWrite,
                        schemaError, rejectingId, rejectNote, noteTypedFor>>
    ELSE /\ isUpdatingQuote' = TRUE
         /\ quoteWrite' = [id |-> id, amount |-> amount.value, result |-> "pending",
                          replaced |-> NoAmount]
         /\ issued' = [op |-> "dbUpdate", id |-> id, note |-> "", amount |-> amount.value]
         /\ UNCHANGED <<viewerVars, trackerVars, user, submissions, uploads, showOnlyMine, statusFilter,
                        editingQuoteId, quoteAmount, quoteTypedFor, schemaError, rejectingId, rejectNote, noteTypedFor>>

\* handleUpdateQuote up to its await: validation, then the store call.
handleUpdateQuote(id) ==
    LET amount == parseInt(quoteAmount) IN
    IF amount.isNaN \/ amount.value <= 0
    THEN /\ issued' = Call("alert", id)
         /\ UNCHANGED <<viewerVars, trackerVars, user, submissions, uploads, showOnlyMine, statusFilter,
                        editingQuoteId, quoteAmount, quoteTypedFor, isUpdatingQuote, quoteWrite,
                        schemaError, rejectingId, rejectNote, noteTypedFor>>
    ELSE /\ isUpdatingQuote' = TRUE
         /\ quoteWrite' = [id |-> id, amount |-> amount.value, result |-> "pending",
                          replaced |-> NoAmount]
         /\ issued' = [op |-> "dbUpdate", id |-> id, note |-> "", amount |-> amount.value]
         /\ UNCHANGED <<viewerVars, trackerVars, user, submissions, uploads, showOnlyMine, statusFilter,
                        editingQuoteId, quoteAmount, quoteTypedFor, schemaError, rejectingId, rejectNote, noteTypedFor>>

\* Variant of ClickSetQuote: the button is not disabled while a write is
\* awaited.
ClickSetQuote_WhileUpdating(id) ==
    /\ QuoteControls(id)
    /\ editingQuoteId = id
    /\ handleUpdateQuote(id)

\* Set button: onClick={() => handleUpdateQuote(sub.id)} disabled={isUpdatingQuote}
ClickSetQuote(id) ==
    /\ QuoteControls(id)
    /\ editingQuoteId = id
    /\ ~isUpdatingQuote
    /\ handleUpdateQuote(id)

WritePending == quoteWrite.result = "pending"

\* Variant of QuoteWriteResolves: the write also marks the submission paid.
QuoteWriteResolves_MarksPaid ==
    /\ WritePending
    /\ submissions' = StoreUpdate(submissions, quoteWrite.id,
                                  [quotedAmount |-> quoteWrite.amount, paymentStatus |-> "paid"])
    /\ quoteWrite' = [quoteWrite EXCEPT !.result = "ok",
                                       !.replaced = submissions[quoteWrite.id].quotedAmount]
    /\ editingQuoteId' = Null
    /\ quoteAmount' = <<>>
    /\ quoteTypedFor' = Null
    /\ schemaError' = Null
    /\ issued' = Call("onRefresh", quoteWrite.id)
    /\ isUpdatingQuote' = FALSE
    /\ UNCHANGED <<viewerVars, trackerVars, user, uploads, showOnlyMine, statusFilter, rejectingId, rejectNote, noteTypedFor>>

\* Variant of QuoteWriteResolves: an amount already set is kept.
QuoteWriteResolves_KeepsFirstAmount ==
    /\ WritePending
    /\ submissions' =
          IF submissions[quoteWrite.id].quotedAmount = NoAmount
          THEN StoreUpdate(submissions, quoteWrite.id, [quotedAmount |-> quoteWrite.amount])
          ELSE submissions
    /\ quoteWrite' = [quoteWrite EXCEPT !.result = "ok",
                                       !.replaced = submissions[quoteWrite.id].quotedAmount]
    /\ editingQuoteId' = Null
    /\ quoteAmount' = <<>>
    /\ quoteTypedFor' = Null
    /\ schemaError' = Null
    /\ issued' = Call("onRefresh", quoteWrite.id)
    /\ isUpdatingQuote' = FALSE
    /\ UNCHANGED <<viewerVars, trackerVars, user, uploads, showOnlyMine, statusFilter, rejectingId, rejectNote, noteTypedFor>>

\* await db.submissions.update(id, { quotedAmount: amount }) resolves.
QuoteWriteResolves ==
    /\ WritePending
    /\ submissions' = StoreUpdate(submissions, quoteWrite.id, [quotedAmount |-> quoteWrite.amount])
    /\ quoteWrite' = [quoteWrite EXCEPT !.result = "ok",
                                       !.replaced = submissions[quoteWrite.id].quotedAmount]
    /\ editingQuoteId' = Null
    /\ quoteAmount' = <<>>
    /\ quoteTypedFor' = Null
    /\ schemaError' = Null
    /\ issued' = Call("onRefresh", quoteWrite.id)
    /\ isUpdatingQuote' = FALSE
    /\ UNCHANGED <<viewerVars, trackerVars, user, uploads, showOnlyMine, statusFilter, rejectingId, rejectNote, noteTypedFor>>

\* The store call rejects, for a missing column or for any other failure.
WriteFailures == {"missing_column", "write_failed"}

\* Variant of QuoteWriteRejects: the failure closes the edit session as a
\* success does.
QuoteWriteRejects_ClosesEditor(failure) ==
    /\ WritePending
    /\ quoteWrite' = [quoteWrite EXCEPT !.result = failure]
    /\ editingQuoteId' = Null
    /\ quoteAmount' = <<>>
    /\ quoteTypedFor' = Null
    /\ schemaError' = MigrationSql
    /\ issued' = NoCall
    /\ isUpdatingQuote' = FALSE
    /\ UNCHANGED <<viewerVars, trackerVars, user, submissions, uploads, showOnlyMine, statusFilter,
                   rejectingId, rejectNote, noteTypedFor>>

\* await db.submissions.update(...) rejects: catch, then finally.
QuoteWriteRejects(failure) ==
    /\ WritePending
    /\ quoteWrite' = [quoteWrite EXCEPT !.result = failure]
    /\ schemaError' = MigrationSql
    /\ issued' = NoCall
    /\ isUpdatingQuote' = FALSE
    /\ UNCHANGED <<viewerVars, trackerVars, user, submissions, uploads, showOnlyMine, statusFilter, editingQuoteId,
                   quoteAmount, quoteTypedFor, rejectingId, rejectNote, noteTypedFor>>

\* Close button of the schema error overlay: onClick={() => setSchemaError(null)}
CloseSchemaError ==
    /\ schemaError # Null
    /\ schemaError' = Null
    /\ issued' = NoCall
    /\ UNCHANGED <<viewerVars, trackerVars, user, submissions, uploads, showOnlyMine, statusFilter, editingQuoteId,
                   quoteAmount, quoteTypedFor, isUpdatingQuote, quoteWrite, rejectingId, rejectNote, noteTypedFor>>

-----------------------------------------------------------------------------
(* Values of the viewer and tracker state while they are not in use *)

ViewerClosed ==
    /\ viewingDetail = NoDetail
    /\ activeStage = "add"
    /\ sliderPos = 50
    /\ isDragging = FALSE
    /\ pointer = NoPointer
    /\ isDownloading = FALSE
    /\ download = NoDownload

TrackerIdle ==
    /\ allMessages = <<>>
    /\ lastReadMap = [i \in Ids |-> 0]
    /\ interval = "none"
    /\ timer = 0
    /\ mountIds = Ids
    /\ listIds = Ids
    /\ markers = [i \in Ids |-> 0]
    /\ messageLog = <<>>
    /\ loads = <<>>
    /\ chattingSubmission = Null

-----------------------------------------------------------------------------
(* Queue controls *)

\* Assignee select: onChange={(e) => onAssign(sub.id, e.target.value)}
Assign(id, editorId) ==
    /\ RowClickable(id)
    /\ submissions' = onAssign(submissions, id, editorId)
    /\ issued' = Call("onAssign", id)
    /\ UNCHANGED <<viewerVars, trackerVars, user, uploads, showOnlyMine, statusFilter, editingQuoteId,
                   quoteAmount, quoteTypedFor, isUpdatingQuote, quoteWrite, schemaError,
                   rejectingId, rejectNote, noteTypedFor>>

\* My-assignments button: onClick={() => setShowOnlyMine(!showOnlyMine)}
ToggleShowOnlyMine ==
    /\ ~ModalOpen
    /\ showOnlyMine' = ~showOnlyMine
    /\ issued' = NoCall
    /\ UNCHANGED <<viewerVars, trackerVars, user, submissions, uploads, statusFilter, editingQuoteId,
                   quoteAmount, quoteTypedFor, isUpdatingQuote, quoteWrite, schemaError,
                   rejectingId, rejectNote, noteTypedFor>>

-----------------------------------------------------------------------------
(* DetailModal: the comparison viewer *)

\* The submission prop: the fields DetailModal reads.
Detail(id) ==
    [id |-> id, plan |-> submissions[id].plan, status |-> submissions[id].status,
     paymentStatus |-> submissions[id].paymentStatus,
     quotedAmount |-> submissions[id].quotedAmount,
     resultRemoveUrl |-> submissions[id].resultRemoveUrl,
     resultAddUrl |-> submissions[id].resultAddUrl,
     resultDataUrl |-> submissions[id].resultDataUrl]

isBoth(submission) == submission.plan = FURNITURE_BOTH

\* Variant of InitialStage: the remove stage is selected whenever its result exists.
InitialStage_RemoveWheneverPresent(submission) ==
    IF isBoth(submission) /\ Truthy(submission.resultRemoveUrl)
    THEN "remove"
    ELSE "add"

\* The initial value of activeStage.
InitialStage(submission) ==
    IF isBoth(submission) /\ Truthy(submission.resultRemoveUrl)
         /\ ~Truthy(submission.resultAddUrl)
    THEN "remove"
    ELSE "add"

afterImageUrl ==
    IF activeStage = "remove"
    THEN viewingDetail.resultRemoveUrl
    ELSE IF Truthy(viewingDetail.resultAddUrl)
         THEN viewingDetail.resultAddUrl
         ELSE viewingDetail.resultDataUrl

\* Variant of needsPayment: the quoted amount is not looked at.
needsPayment_WithoutAmount(submission) ==
    /\ submission.plan = FLOOR_PLAN_CG
    /\ submission.paymentStatus = "quote_pending"

needsPayment(submission) ==
    /\ submission.plan = FLOOR_PLAN_CG
    /\ submission.paymentStatus = "quote_pending"
    /\ submission.quotedAmount # NoAmount

\* Row thumbnail: onClick={() => setViewingDetail(sub)}; DetailModal mounts.
OpenDetail(id) ==
    /\ RowClickable(id)
    /\ viewingDetail' = Detail(id)
    /\ activeStage' = InitialStage(Detail(id))
    /\ sliderPos' = 50
    /\ isDragging' = FALSE
    /\ pointer' = NoPointer
    /\ isDownloading' = FALSE
    /\ UNCHANGED download
    /\ issued' = NoCall
    /\ UNCHANGED <<onTriggerCheckout, trackerVars, user, submissions, uploads, showOnlyMine,
                   statusFilter, editingQuoteId, quoteAmount, quoteTypedFor, isUpdatingQuote,
                   quoteWrite, schemaError, rejectingId, rejectNote, noteTypedFor>>

\* onClose={() => setViewingDetail(null)}; DetailModal unmounts and its window
\* listeners are removed.
CloseDetail ==
    /\ viewingDetail # NoDetail
    /\ schemaError = Null
    /\ viewingDetail' = NoDetail
    /\ activeStage' = "add"
    /\ sliderPos' = 50
    /\ isDragging' = FALSE
    /\ pointer' = NoPointer
    /\ isDownloading' = FALSE
    /\ download' = [download EXCEPT !.mounted = FALSE]
    /\ issued' = NoCall
    /\ UNCHANGED <<onTriggerCheckout, trackerVars, user, submissions, uploads, showOnlyMine,
                   statusFilter, editingQuoteId, quoteAmount, quoteTypedFor, isUpdatingQuote,
                   quoteWrite, schemaError, rejectingId, rejectNote, noteTypedFor>>

\* Stage toggle, rendered when isBoth && submission.status !== 'quote_request'.
SetActiveStage(stage) ==
    /\ viewingDetail # NoDetail
    /\ schemaError = Null
    /\ isBoth(viewingDetail)
    /\ viewingDetail.status # "quote_request"
    /\ activeStage' = stage
    /\ issued' = NoCall
    /\ UNCHANGED <<downloadVars, viewingDetail, onTriggerCheckout, sliderPos, isDragging, pointer,
                   trackerVars, user, submissions, uploads, showOnlyMine,
                   statusFilter, editingQuoteId, quoteAmount, quoteTypedFor, isUpdatingQuote,
                   quoteWrite, schemaError, rejectingId, rejectNote, noteTypedFor>>

\* Complete Payment Now, rendered when needsPayment:
\* onTriggerCheckout?.(submission.id, planTitle, submission.quotedAmount!)
ClickCompletePayment ==
    /\ viewingDetail # NoDetail
    /\ schemaError = Null
    /\ needsPayment(viewingDetail)
    /\ issued' = IF onTriggerCheckout
                 THEN [op |-> "onTriggerCheckout", id |-> viewingDetail.id, note |-> "",
                       amount |-> viewingDetail.quotedAmount]
                 ELSE NoCall
    /\ UNCHANGED <<viewerVars, trackerVars, user, submissions, uploads, showOnlyMine,
                   statusFilter, editingQuoteId, quoteAmount, quoteTypedFor, isUpdatingQuote,
                   quoteWrite, schemaError, rejectingId, rejectNote, noteTypedFor>>

\* submission.dataUrl, the customer's source image.
SourceUrl(id) == <<"source", id>>

DownloadInFlight == download.phase \in {"fetch", "blob"}

\* Variant of handleDownload: the call does not look at isDownloading.
handleDownload_Unguarded(url) ==
    /\ isDownloading' = TRUE
    /\ download' = [url |-> url, phase |-> "fetch", mounted |-> TRUE,
                    offered |-> NoUrl, opened |-> NoUrl, refused |-> FALSE]
    /\ issued' = Call("fetch", viewingDetail.id)
    /\ UNCHANGED <<viewingDetail, onTriggerCheckout, activeStage, sliderPos, isDragging,
                   pointer, trackerVars, user, submissions, uploads, showOnlyMine,
                   statusFilter, editingQuoteId, quoteAmount, quoteTypedFor, isUpdatingQuote,
                   quoteWrite, schemaError, rejectingId, rejectNote, noteTypedFor>>

\* handleDownload(url, prefix) up to await fetch(url): a call made while
\* isDownloading returns at once, which download.refused records. One call is
\* followed at a time: a modal opened while the call of a closed one is
\* awaited starts its own call after that one has ended.
handleDownload(url) ==
    /\ IF isDownloading
       THEN /\ download' = [download EXCEPT !.refused = TRUE]
            /\ issued' = NoCall
            /\ UNCHANGED isDownloading
       ELSE /\ ~DownloadInFlight
            /\ isDownloading' = TRUE
            /\ download' = [url |-> url, phase |-> "fetch", mounted |-> TRUE,
                            offered |-> NoUrl, opened |-> NoUrl, refused |-> FALSE]
            /\ issued' = Call("fetch", viewingDetail.id)
    /\ UNCHANGED <<viewingDetail, onTriggerCheckout, activeStage, sliderPos, isDragging,
                   pointer, trackerVars, user, submissions, uploads, showOnlyMine,
                   statusFilter, editingQuoteId, quoteAmount, quoteTypedFor, isUpdatingQuote,
                   quoteWrite, schemaError, rejectingId, rejectNote, noteTypedFor>>

\* Download Source button. The buttons are disabled while isDownloading, and
\* handleDownload looks at isDownloading itself.
ClickDownloadSource ==
    /\ viewingDetail # NoDetail
    /\ schemaError = Null
    /\ handleDownload(SourceUrl(viewingDetail.id))

\* Download Result button, rendered when afterImageUrl is there.
ClickDownloadResult ==
    /\ viewingDetail # NoDetail
    /\ schemaError = Null
    /\ Truthy(afterImageUrl)
    /\ handleDownload(afterImageUrl)

\* await fetch(url) resolves; response.blob() is awaited next.
FetchResolves ==
    /\ download.phase = "fetch"
    /\ download' = [download EXCEPT !.phase = "blob"]
    /\ issued' = NoCall
    /\ UNCHANGED <<isDownloading, viewingDetail, onTriggerCheckout, activeStage, sliderPos,
                   isDragging, pointer, trackerVars, user, submissions, uploads,
                   showOnlyMine, statusFilter, editingQuoteId, quoteAmount, quoteTypedFor,
                   isUpdatingQuote, quoteWrite, schemaError, rejectingId, rejectNote, noteTypedFor>>

\* await response.blob() resolves: the blob is offered through a link with the
\* download attribute; finally clears isDownloading of the modal that made the
\* call, if it is still mounted.
BlobResolves ==
    /\ download.phase = "blob"
    /\ download' = [download EXCEPT !.phase = "saved", !.offered = download.url]
    /\ isDownloading' = IF download.mounted THEN FALSE ELSE isDownloading
    /\ issued' = Call("linkClick", Null)
    /\ UNCHANGED <<viewingDetail, onTriggerCheckout, activeStage, sliderPos, isDragging,
                   pointer, trackerVars, user, submissions, uploads, showOnlyMine,
                   statusFilter, editingQuoteId, quoteAmount, quoteTypedFor, isUpdatingQuote,
                   quoteWrite, schemaError, rejectingId, rejectNote, noteTypedFor>>

\* Variant of DownloadFails: the error is logged and nothing is opened.
DownloadFails_LogsOnly ==
    /\ DownloadInFlight
    /\ download' = [download EXCEPT !.phase = "opened"]
    /\ isDownloading' = IF download.mounted THEN FALSE ELSE isDownloading
    /\ issued' = NoCall
    /\ UNCHANGED <<viewingDetail, onTriggerCheckout, activeStage, sliderPos, isDragging,
                   pointer, trackerVars, user, submissions, uploads, showOnlyMine,
                   statusFilter, editingQuoteId, quoteAmount, quoteTypedFor, isUpdatingQuote,
                   quoteWrite, schemaError, rejectingId, rejectNote, noteTypedFor>>

\* await fetch(url) or await response.blob() rejects: catch opens the URL in a
\* new window; finally as above.
DownloadFails ==
    /\ DownloadInFlight
    /\ download' = [download EXCEPT !.phase = "opened", !.opened = download.url]
    /\ isDownloading' = IF download.mounted THEN FALSE ELSE isDownloading
    /\ issued' = Call("windowOpen", Null)
    /\ UNCHANGED <<viewingDetail, onTriggerCheckout, activeStage, sliderPos, isDragging,
                   pointer, trackerVars, user, submissions, uploads, showOnlyMine,
                   statusFilter, editingQuoteId, quoteAmount, quoteTypedFor, isUpdatingQuote,
                   quoteWrite, schemaError, rejectingId, rejectNote, noteTypedFor>>

\* containerRef.current.getBoundingClientRect(): widths for which the division
\* and the multiplication by 100 are exact, so that integer arithmetic is the
\* arithmetic of the code.
ContainerLefts == {0, 2}
ContainerWidths == {2, 4}
Rects == [left : ContainerLefts, width : ContainerWidths]
ClientXs == -1..MaxClientX

Min(a, b) == IF a < b THEN a ELSE b
Max(a, b) == IF a > b THEN a ELSE b

\* Variant of updatePosition: the position is not clamped from below.
updatePosition_NoLowerClamp(clientX, rect) ==
    LET position == ((clientX - rect.left) * 100) \div rect.width
    IN  Min(position, 100)

\* updatePosition: the value given to setSliderPos (the container is mounted
\* for as long as the modal is).
updatePosition(clientX, rect) ==
    LET position == ((clientX - rect.left) * 100) \div rect.width
    IN  Min(Max(position, 0), 100)

\* onMouseDown / onTouchStart of the container: the press is inside it.
handleStart(clientX, rect) ==
    /\ viewingDetail # NoDetail
    /\ schemaError = Null
    /\ rect.left <= clientX /\ clientX <= rect.left + rect.width
    /\ isDragging' = TRUE
    /\ sliderPos' = updatePosition(clientX, rect)
    /\ pointer' = [kind |-> "start", clientX |-> clientX, left |-> rect.left, width |-> rect.width]
    /\ issued' = NoCall
    /\ UNCHANGED <<downloadVars, viewingDetail, onTriggerCheckout, activeStage,
                   trackerVars, user, submissions, uploads, showOnlyMine,
                   statusFilter, editingQuoteId, quoteAmount, quoteTypedFor, isUpdatingQuote,
                   quoteWrite, schemaError, rejectingId, rejectNote, noteTypedFor>>

\* Variant of handleMove: the slider follows the pointer without a drag.
handleMove_WithoutDrag(clientX, rect) ==
    /\ viewingDetail # NoDetail
    /\ sliderPos' = updatePosition(clientX, rect)
    /\ pointer' = [kind |-> "move", clientX |-> clientX, left |-> rect.left, width |-> rect.width]
    /\ issued' = NoCall
    /\ UNCHANGED <<downloadVars, viewingDetail, onTriggerCheckout, activeStage, isDragging,
                   trackerVars, user, submissions, uploads, showOnlyMine,
                   statusFilter, editingQuoteId, quoteAmount, quoteTypedFor, isUpdatingQuote,
                   quoteWrite, schemaError, rejectingId, rejectNote, noteTypedFor>>

\* window mousemove / touchmove, anywhere on the page.
handleMove(clientX, rect) ==
    /\ viewingDetail # NoDetail
    /\ sliderPos' = IF isDragging THEN updatePosition(clientX, rect) ELSE sliderPos
    /\ pointer' = [kind |-> "move", clientX |-> clientX, left |-> rect.left, width |-> rect.width]
    /\ issued' = NoCall
    /\ UNCHANGED <<downloadVars, viewingDetail, onTriggerCheckout, activeStage, isDragging,
                   trackerVars, user, submissions, uploads, showOnlyMine,
                   statusFilter, editingQuoteId, quoteAmount, quoteTypedFor, isUpdatingQuote,
                   quoteWrite, schemaError, rejectingId, rejectNote, noteTypedFor>>

\* Variant of handleEnd: a release outside the container does not end the drag.
handleEnd_InsideOnly(clientX, rect) ==
    /\ viewingDetail # NoDetail
    /\ isDragging' = IF rect.left <= clientX /\ clientX <= rect.left + rect.width
                     THEN FALSE ELSE isDragging
    /\ pointer' = [kind |-> "end", clientX |-> clientX, left |-> rect.left, width |-> rect.width]
    /\ issued' = NoCall
    /\ UNCHANGED <<downloadVars, viewingDetail, onTriggerCheckout, activeStage, sliderPos,
                   trackerVars, user, submissions, uploads, showOnlyMine,
                   statusFilter, editingQuoteId, quoteAmount, quoteTypedFor, isUpdatingQuote,
                   quoteWrite, schemaError, rejectingId, rejectNote, noteTypedFor>>

\* window mouseup / touchend, anywhere on the page.
handleEnd(clientX, rect) ==
    /\ viewingDetail # NoDetail
    /\ isDragging' = FALSE
    /\ pointer' = [kind |-> "end", clientX |-> clientX, left |-> rect.left, width |-> rect.width]
    /\ issued' = NoCall
    /\ UNCHANGED <<downloadVars, viewingDetail, onTriggerCheckout, activeStage, sliderPos,
                   trackerVars, user, submissions, uploads, showOnlyMine,
                   statusFilter, editingQuoteId, quoteAmount, quoteTypedFor, isUpdatingQuote,
                   quoteWrite, schemaError, rejectingId, rejectNote, noteTypedFor>>

FilterStatuses ==
    {"all", "pending", "processing", "reviewing", "completed", "comments", "archive", "plans"}

\* Filter buttons: onClick={() => setStatusFilter(s)}
SetStatusFilter(s) ==
    /\ ~ModalOpen
    /\ statusFilter' = s
    /\ issued' = NoCall
    /\ UNCHANGED <<viewerVars, trackerVars, user, submissions, uploads, showOnlyMine,
                   editingQuoteId, quoteAmount, quoteTypedFor, isUpdatingQuote, quoteWrite,
                   schemaError, rejectingId, rejectNote, noteTypedFor>>

-----------------------------------------------------------------------------

\* Records as the order flow creates them: no result yet, not yet reviewed;
\* a quote-gated order waits for its quote, any other is unpaid or paid.
NewSubmissions ==
    { s \in [plan : Plans, status : {"pending", "processing"},
             paymentStatus : PaymentStatuses, quotedAmount : {NoAmount},
             resultRemoveUrl : {NoUrl}, resultAddUrl : {NoUrl},
             resultDataUrl : {NoUrl}, assignedEditorId : EditorIds \cup {""}] :
        s.paymentStatus = "quote_pending" <=> s.plan = FLOOR_PLAN_CG }

\* One order in the staff queue, one still before checkout.
Init ==
    /\ user \in Users
    /\ submissions \in [Ids -> NewSubmissions]
    /\ submissions["S1"].paymentStatus # "unpaid"
    /\ submissions["S2"].paymentStatus = "unpaid"
    /\ submissions["S2"].plan = OTHER_PLAN
    /\ submissions["S2"].status = "pending"
    /\ submissions["S2"].assignedEditorId = ""
    /\ uploads = <<>>
    /\ showOnlyMine = (user.role = "editor")
    /\ statusFilter = "all"
    /\ editingQuoteId = Null
    /\ quoteAmount = <<>>
    /\ quoteTypedFor = Null
    /\ isUpdatingQuote = FALSE
    /\ quoteWrite = NoWrite
    /\ schemaError = Null
    /\ rejectingId = Null
    /\ rejectNote = ""
    /\ noteTypedFor = Null
    /\ issued = NoCall
    /\ ViewerClosed
    /\ onTriggerCheckout = FALSE
    /\ TrackerIdle

Next ==
    \/ \E id \in Ids, type \in Stages : HandleUpload(id, type)
    \/ \E k \in 1..MaxUploads : UploadResolves(k)
    \/ \E k \in 1..MaxUploads : UploadRejects(k)
    \/ \E id \in Ids : Approve(id)
    \/ \E id \in Ids : OpenReject(id)
    \/ \E note \in Notes : SetRejectNote(note)
    \/ CancelReject
    \/ handleConfirmReject
    \/ \E id \in Ids, e \in EditorIds \cup {""} : Assign(id, e)
    \/ ToggleShowOnlyMine

Spec == Init /\ [][Next]_vars

-----------------------------------------------------------------------------
(* The quote manager on a queue of submissions at any point of their life *)

\* Records the lifecycle reaches: a submission under or past review has its
\* results, a quote-gated one is paid only after a quote was set.
QueueSubmissions ==
    { s \in [plan : {FLOOR_PLAN_CG, OTHER_PLAN}, status : {"pending", "reviewing", "completed"},
             paymentStatus : {"quote_pending", "paid"}, quotedAmount : {NoAmount, 7},
             resultRemoveUrl : {NoUrl}, resultAddUrl : {NoUrl, <<"results">>},
             resultDataUrl : {NoUrl, <<"results">>}, assignedEditorId : {""}] :
        /\ s.resultDataUrl = s.resultAddUrl
        /\ Truthy(s.resultAddUrl) <=> s.status \in {"reviewing", "completed"}
        /\ s.paymentStatus = "quote_pending" => s.plan = FLOOR_PLAN_CG
        /\ (s.plan = FLOOR_PLAN_CG /\ s.paymentStatus = "paid") => s.quotedAmount # NoAmount
        /\ s.plan # FLOOR_PLAN_CG => s.quotedAmount = NoAmount }

InitQuote ==
    /\ user \in Users
    /\ submissions \in [Ids -> QueueSubmissions]
    /\ uploads = <<>>
    /\ showOnlyMine = FALSE
    /\ statusFilter = "all"
    /\ editingQuoteId = Null
    /\ quoteAmount = <<>>
    /\ quoteTypedFor = Null
    /\ isUpdatingQuote = FALSE
    /\ quoteWrite = NoWrite
    /\ schemaError = Null
    /\ rejectingId = Null
    /\ rejectNote = ""
    /\ noteTypedFor = Null
    /\ issued = NoCall
    /\ ViewerClosed
    /\ onTriggerCheckout = FALSE
    /\ TrackerIdle

NextQuote ==
    \/ \E id \in Ids : OpenQuoteEditor(id)
    \/ \E str \in QuoteInputs : SetQuoteAmount(str)
    \/ \E id \in Ids : ClickSetQuote(id)
    \/ QuoteWriteResolves
    \/ \E failure \in WriteFailures : QuoteWriteRejects(failure)
    \/ CloseSchemaError

SpecQuote == InitQuote /\ [][NextQuote]_vars

-----------------------------------------------------------------------------
(* The messaging tracker on a growing message log *)

\* The last-read markers found in localStorage, 0 for a submission without one.
LastReadMaps == [Ids -> {0} \cup Timestamps]

\* loadAllMessages, on mount, every five seconds and after a chat is closed:
\* fetchAll returns the log, which has grown by arrived, and the markers are
\* read again.
loadAllMessages(arrived, map) ==
    /\ Len(allMessages) + Len(arrived) <= MaxMessages
    /\ allMessages' = allMessages \o arrived
    /\ lastReadMap' = map
    /\ issued' = Call("fetchAll", Null)
    /\ UNCHANGED <<pollVars, viewerVars, user, submissions, uploads, showOnlyMine, statusFilter,
                   editingQuoteId, quoteAmount, quoteTypedFor, isUpdatingQuote, quoteWrite,
                   schemaError, rejectingId, rejectNote, noteTypedFor>>

InitTracker ==
    /\ user \in Users
    /\ submissions \in [Ids -> QueueSubmissions]
    /\ \A i \in Ids : submissions[i].plan = OTHER_PLAN /\ submissions[i].status = "pending"
    /\ uploads = <<>>
    /\ showOnlyMine = FALSE
    /\ statusFilter = "all"
    /\ editingQuoteId = Null
    /\ quoteAmount = <<>>
    /\ quoteTypedFor = Null
    /\ isUpdatingQuote = FALSE
    /\ quoteWrite = NoWrite
    /\ schemaError = Null
    /\ rejectingId = Null
    /\ rejectNote = ""
    /\ noteTypedFor = Null
    /\ issued = NoCall
    /\ ViewerClosed
    /\ onTriggerCheckout = FALSE
    /\ TrackerIdle

NextTracker ==
    \E arrived \in {<<>>} \cup {<<m>> : m \in Messages}, map \in LastReadMaps :
        loadAllMessages(arrived, map)

SpecTracker == InitTracker /\ [][NextTracker]_vars

-----------------------------------------------------------------------------
(* The queue under its filters, with an order that is still before checkout *)

InitQueue ==
    /\ user \in Users
    /\ submissions \in [Ids -> QueueSubmissions \cup NewSubmissions]
    /\ submissions["S1"] \in QueueSubmissions
    /\ submissions["S1"].status # "completed"
    /\ submissions["S2"].paymentStatus = "unpaid"
    /\ submissions["S2"].plan = OTHER_PLAN
    /\ submissions["S2"].status = "pending"
    /\ submissions["S2"].assignedEditorId = ""
    /\ uploads = <<>>
    /\ showOnlyMine = (user.role = "editor")
    /\ statusFilter = "all"
    /\ editingQuoteId = Null
    /\ quoteAmount = <<>>
    /\ quoteTypedFor = Null
    /\ isUpdatingQuote = FALSE
    /\ quoteWrite = NoWrite
    /\ schemaError = Null
    /\ rejectingId = Null
    /\ rejectNote = ""
    /\ noteTypedFor = Null
    /\ issued = NoCall
    /\ ViewerClosed
    /\ onTriggerCheckout = FALSE
    /\ TrackerIdle

\* One delivery, one quote and one message of each submission are enough to
\* take every control of a row.
NextQueue ==
    \/ \E s \in FilterStatuses : SetStatusFilter(s)
    \/ ToggleShowOnlyMine
    \/ \E id \in Ids, e \in EditorIds \cup {""} : Assign(id, e)
    \/ \E id \in Ids, type \in Stages : uploads = <<>> /\ HandleUpload(id, type)
    \/ \E k \in 1..MaxUploads : UploadResolves(k)
    \/ \E id \in Ids : Approve(id)
    \/ \E id \in Ids : OpenReject(id)
    \/ handleConfirmReject
    \/ \E id \in Ids : OpenQuoteEditor(id)
    \/ SetQuoteAmount(<<"7">>)
    \/ \E id \in Ids : ClickSetQuote(id)
    \/ QuoteWriteResolves
    \/ \E i \in Ids :
          /\ \A n \in 1..Len(allMessages) : allMessages[n].submission_id # i
          /\ loadAllMessages(<<[submission_id |-> i, sender_role |-> "user", timestamp |-> 1]>>,
                             lastReadMap)

SpecQueue == InitQueue /\ [][NextQueue]_vars

-----------------------------------------------------------------------------
(* The comparison viewer on submissions with and without results *)

\* Records the viewer is opened on: paid orders with any of their results
\* delivered (resultDataUrl alone is a single-stage result stored without the
\* add-stage mirror), and quote-gated orders before and after their quote.
ViewerSubmissions ==
    { s \in [plan : Plans, status : {"processing", "reviewing"},
             paymentStatus : {"quote_pending", "paid"}, quotedAmount : {NoAmount, 7},
             resultRemoveUrl : {NoUrl, <<"results", "remove">>},
             resultAddUrl : {NoUrl, <<"results", "add">>},
             resultDataUrl : {NoUrl, <<"results", "add">>, <<"results", "data">>},
             assignedEditorId : {""}] :
        /\ Truthy(s.resultAddUrl) => s.resultDataUrl = s.resultAddUrl
        /\ s.resultDataUrl = <<"results", "add">> => Truthy(s.resultAddUrl)
        /\ s.plan # FURNITURE_BOTH => ~Truthy(s.resultRemoveUrl)
        /\ s.status = "reviewing" <=>
              IF s.plan = FURNITURE_BOTH
              THEN Truthy(s.resultRemoveUrl) /\ Truthy(s.resultAddUrl)
              ELSE Truthy(s.resultAddUrl) \/ Truthy(s.resultDataUrl)
        /\ s.paymentStatus = "quote_pending" => s.plan = FLOOR_PLAN_CG /\ ~Truthy(s.resultDataUrl)
        /\ (s.plan = FLOOR_PLAN_CG /\ s.paymentStatus = "paid") => s.quotedAmount # NoAmount
        /\ s.plan # FLOOR_PLAN_CG => s.quotedAmount = NoAmount }

InitViewer ==
    /\ user \in {u \in Users : u.role = "admin"}
    /\ submissions \in [Ids -> ViewerSubmissions]
    /\ submissions["S2"].plan = OTHER_PLAN
    /\ ~Truthy(submissions["S2"].resultDataUrl)
    /\ uploads = <<>>
    /\ showOnlyMine = FALSE
    /\ statusFilter = "all"
    /\ editingQuoteId = Null
    /\ quoteAmount = <<>>
    /\ quoteTypedFor = Null
    /\ isUpdatingQuote = FALSE
    /\ quoteWrite = NoWrite
    /\ schemaError = Null
    /\ rejectingId = Null
    /\ rejectNote = ""
    /\ noteTypedFor = Null
    /\ issued = NoCall
    /\ ViewerClosed
    /\ onTriggerCheckout = FALSE
    /\ TrackerIdle

NextViewer ==
    \/ \E id \in Ids : OpenDetail(id)
    \/ CloseDetail
    \/ \E stage \in {"remove", "add"} : SetActiveStage(stage)
    \/ \E clientX \in ClientXs, rect \in Rects : handleStart(clientX, rect)
    \/ \E clientX \in ClientXs, rect \in Rects : handleMove(clientX, rect)
    \/ \E clientX \in ClientXs, rect \in Rects : handleEnd(clientX, rect)

SpecViewer == InitViewer /\ [][NextViewer]_vars

-----------------------------------------------------------------------------
(* The quote manager and the payment step of the viewer *)

\* The viewer is hosted either with the checkout callback or, as in
\* AdminDashboard, without it.
InitCheckout ==
    /\ user \in Users
    /\ submissions \in [Ids -> QueueSubmissions]
    /\ uploads = <<>>
    /\ showOnlyMine = FALSE
    /\ statusFilter = "all"
    /\ editingQuoteId = Null
    /\ quoteAmount = <<>>
    /\ quoteTypedFor = Null
    /\ isUpdatingQuote = FALSE
    /\ quoteWrite = NoWrite
    /\ schemaError = Null
    /\ rejectingId = Null
    /\ rejectNote = ""
    /\ noteTypedFor = Null
    /\ issued = NoCall
    /\ ViewerClosed
    /\ onTriggerCheckout \in BOOLEAN
    /\ TrackerIdle

NextCheckout ==
    \/ NextQuote
    \/ \E id \in Ids : OpenDetail(id)
    \/ CloseDetail
    \/ ClickCompletePayment

SpecCheckout == InitCheckout /\ [][NextCheckout]_vars

-----------------------------------------------------------------------------
(* The review gate over a queue of several submissions *)

NextReview ==
    \/ \E id \in Ids : Approve(id)
    \/ \E id \in Ids : OpenReject(id)
    \/ \E note \in Notes : SetRejectNote(note)
    \/ CancelReject
    \/ handleConfirmReject

SpecReview == InitQuote /\ [][NextReview]_vars

-----------------------------------------------------------------------------
(* The queue under its filters *)

\* Submissions of a one-stage plan, before and after their delivery, paid or
\* not, assigned or not.
FilterSubmissions == {s \in QueueSubmissions \cup NewSubmissions : s.plan = OTHER_PLAN}

InitFilter ==
    /\ user \in Users
    /\ submissions \in [Ids -> FilterSubmissions]
    /\ uploads = <<>>
    /\ showOnlyMine = (user.role = "editor")
    /\ statusFilter = "all"
    /\ editingQuoteId = Null
    /\ quoteAmount = <<>>
    /\ quoteTypedFor = Null
    /\ isUpdatingQuote = FALSE
    /\ quoteWrite = NoWrite
    /\ schemaError = Null
    /\ rejectingId = Null
    /\ rejectNote = ""
    /\ noteTypedFor = Null
    /\ issued = NoCall
    /\ ViewerClosed
    /\ onTriggerCheckout = FALSE
    /\ TrackerIdle

\* The filter buttons, the my-assignments toggle, and refreshes that bring one
\* more message of a user.
NextFilter ==
    \/ \E s \in FilterStatuses : SetStatusFilter(s)
    \/ ToggleShowOnlyMine
    \/ \E m \in Messages :
          /\ m.submission_id \in Ids
          /\ m.sender_role = "user"
          /\ loadAllMessages(<<m>>, lastReadMap)

SpecFilter == InitFilter /\ [][NextFilter]_vars

-----------------------------------------------------------------------------
(* Polling for messages *)

deskVars == <<user, submissions, uploads, showOnlyMine, statusFilter, editingQuoteId,
              quoteAmount, quoteTypedFor, isUpdatingQuote, quoteWrite, schemaError, rejectingId,
              rejectNote, noteTypedFor>>

\* A loadAllMessages call that awaits fetchAll: ids are the submissions of the
\* render whose loadAllMessages was called, trigger is what called it.
Load(ids, trigger) == [ids |-> ids, trigger |-> trigger]

Fetch(trigger) == [op |-> "fetchAll", id |-> Null, note |-> trigger, amount |-> 0]

RemoveAt(seq, k) == SubSeq(seq, 1, k - 1) \o SubSeq(seq, k + 1, Len(seq))

\* The call of loadAllMessages up to its await.
StartLoad(ids, trigger) ==
    /\ Len(loads) < MaxLoads
    /\ loads' = Append(loads, Load(ids, trigger))
    /\ issued' = Fetch(trigger)

\* The mount effect: one call of loadAllMessages, then setInterval. The effect
\* has no dependencies, so the interval keeps the loadAllMessages of this
\* render, and with it this render's submissions.
MountEffect ==
    /\ interval = "none"
    /\ interval' = "set"
    /\ timer' = 0
    /\ mountIds' = listIds
    /\ StartLoad(listIds, "mount")
    /\ UNCHANGED <<allMessages, lastReadMap, listIds, markers, messageLog,
                   chattingSubmission, viewerVars, deskVars>>

\* d seconds pass. While the interval is set, no more time passes than is left
\* until it fires.
TimePasses(d) ==
    /\ d >= 1
    /\ timer + d <= PollInterval
    /\ timer' = timer + d
    /\ UNCHANGED <<allMessages, lastReadMap, interval, mountIds, listIds, markers,
                   messageLog, loads, chattingSubmission, issued, viewerVars, deskVars>>

\* The interval fires and calls the loadAllMessages it was set with.
PollTick_AfterTeardown ==
    /\ interval # "none"
    /\ timer = PollInterval
    /\ timer' = 0
    /\ StartLoad(mountIds, "tick")
    /\ UNCHANGED <<allMessages, lastReadMap, interval, mountIds, listIds, markers,
                   messageLog, chattingSubmission, viewerVars, deskVars>>

PollTick ==
    /\ interval = "set"
    /\ timer = PollInterval
    /\ timer' = 0
    /\ StartLoad(mountIds, "tick")
    /\ UNCHANGED <<allMessages, lastReadMap, interval, mountIds, listIds, markers,
                   messageLog, chattingSubmission, viewerVars, deskVars>>

\* The cleanup of the mount effect: clearInterval. The ChatBoard goes with the
\* dashboard.
Unmount ==
    /\ interval = "set"
    /\ interval' = "cleared"
    /\ chattingSubmission' = Null
    /\ issued' = NoCall
    /\ UNCHANGED <<allMessages, lastReadMap, timer, mountIds, listIds, markers,
                   messageLog, loads, viewerVars, deskVars>>

\* The chat button of a row.
OpenChat(id) ==
    /\ interval = "set"
    /\ RowClickable(id)
    /\ chattingSubmission' = id
    /\ issued' = NoCall
    /\ UNCHANGED <<allMessages, lastReadMap, interval, timer, mountIds, listIds,
                   markers, messageLog, loads, viewerVars, deskVars>>

\* The ChatBoard stores "now" as the last-read marker of its submission.
\* Timestamps count the messages of the store, so "now" is the timestamp of
\* the latest message.
MarkRead(id) == markers' = [markers EXCEPT ![id] = Len(messageLog)]

\* The ChatBoard closes: the marker is stored, and onClose clears
\* chattingSubmission and calls the loadAllMessages of the current render.
CloseChat_KeepsMarker ==
    /\ chattingSubmission # Null
    /\ chattingSubmission' = Null
    /\ UNCHANGED markers
    /\ StartLoad(listIds, "close")
    /\ UNCHANGED <<allMessages, lastReadMap, interval, timer, mountIds, listIds,
                   messageLog, viewerVars, deskVars>>

CloseChat ==
    /\ chattingSubmission # Null
    /\ chattingSubmission' = Null
    /\ MarkRead(chattingSubmission)
    /\ StartLoad(listIds, "close")
    /\ UNCHANGED <<allMessages, lastReadMap, interval, timer, mountIds, listIds,
                   messageLog, viewerVars, deskVars>>

\* The markers loadAllMessages finds for the submissions of its render.
MarkersOf(ids) == [i \in Ids |-> IF i \in ids THEN markers[i] ELSE 0]

MarkersOf_Everyone(ids) == markers

\* fetchAll resolves for the k-th waiting call: the messages and the markers
\* of the call's submissions are set. After the dashboard is gone the two
\* setters change nothing.
LoadResolves(k) ==
    /\ k \in 1..Len(loads)
    /\ loads' = RemoveAt(loads, k)
    /\ IF interval = "cleared"
         THEN UNCHANGED <<allMessages, lastReadMap>>
         ELSE /\ allMessages' = messageLog
              /\ lastReadMap' = MarkersOf(loads[k].ids)
    /\ issued' = NoCall
    /\ UNCHANGED <<interval, timer, mountIds, listIds, markers, messageLog,
                   chattingSubmission, viewerVars, deskVars>>

\* fetchAll rejects for the k-th waiting call: the catch logs the error.
LoadRejects(k) ==
    /\ k \in 1..Len(loads)
    /\ loads' = RemoveAt(loads, k)
    /\ issued' = NoCall
    /\ UNCHANGED <<allMessages, lastReadMap, interval, timer, mountIds, listIds,
                   markers, messageLog, chattingSubmission, viewerVars, deskVars>>

\* A message is stored for a submission.
MessageArrives(id, role) ==
    /\ Len(messageLog) < MaxMessages
    /\ messageLog' = Append(messageLog, [submission_id |-> id, sender_role |-> role,
                                         timestamp |-> Len(messageLog) + 1])
    /\ UNCHANGED <<allMessages, lastReadMap, interval, timer, mountIds, listIds,
                   markers, loads, chattingSubmission, issued, viewerVars, deskVars>>

\* The dashboard is rendered again with a submissions prop that holds one
\* more submission.
SubmissionJoins(id) ==
    /\ id \notin listIds
    /\ listIds' = listIds \cup {id}
    /\ UNCHANGED <<allMessages, lastReadMap, interval, timer, mountIds, markers,
                   messageLog, loads, chattingSubmission, issued, viewerVars, deskVars>>

\* The dashboard before its mount effect has run.
InitPoll ==
    /\ user \in Users
    /\ user.role = "admin"
    /\ submissions \in [Ids -> QueueSubmissions]
    /\ \A i \in Ids : submissions[i].plan = OTHER_PLAN /\ submissions[i].status = "pending"
    /\ uploads = <<>>
    /\ showOnlyMine = FALSE
    /\ statusFilter = "all"
    /\ editingQuoteId = Null
    /\ quoteAmount = <<>>
    /\ quoteTypedFor = Null
    /\ isUpdatingQuote = FALSE
    /\ quoteWrite = NoWrite
    /\ schemaError = Null
    /\ rejectingId = Null
    /\ rejectNote = ""
    /\ noteTypedFor = Null
    /\ issued = NoCall
    /\ ViewerClosed
    /\ onTriggerCheckout = FALSE
    /\ allMessages = <<>>
    /\ lastReadMap = [i \in Ids |-> 0]
    /\ interval = "none"
    /\ timer = 0
    /\ mountIds = {}
    /\ listIds \in SUBSET Ids
    /\ markers = [i \in Ids |-> 0]
    /\ messageLog = <<>>
    /\ loads = <<>>
    /\ chattingSubmission = Null

\* The schedule of the refreshes, second by second.
NextPoll ==
    \/ MountEffect
    \/ TimePasses(1)
    \/ PollTick
    \/ Unmount
    \/ \E id \in Ids : OpenChat(id)
    \/ CloseChat
    \/ \E k \in 1..MaxLoads : LoadResolves(k)
    \/ \E k \in 1..MaxLoads : LoadRejects(k)
    \/ \E id \in Ids : SubmissionJoins(id)

SpecPoll == InitPoll /\ [][NextPoll]_vars

\* What the refreshes show: messages of users, time from one firing of the
\* interval to the next, and one refresh at a time.
NextUnread ==
    \/ MountEffect
    \/ TimePasses(PollInterval - timer)
    \/ loads = <<>> /\ PollTick
    \/ Unmount
    \/ \E id \in Ids : OpenChat(id)
    \/ loads = <<>> /\ CloseChat
    \/ \E k \in 1..MaxLoads : LoadResolves(k)
    \/ \E k \in 1..MaxLoads : LoadRejects(k)
    \/ \E id \in Ids : MessageArrives(id, "user")
    \/ \E id \in Ids : SubmissionJoins(id)

SpecUnread == InitPoll /\ [][NextUnread]_vars

-----------------------------------------------------------------------------
(* Downloads from the comparison viewer *)

NextDownload ==
    \/ \E id \in Ids : OpenDetail(id)
    \/ CloseDetail
    \/ \E stage \in {"remove", "add"} : SetActiveStage(stage)
    \/ ClickDownloadSource
    \/ ClickDownloadResult
    \/ FetchResolves
    \/ BlobResolves
    \/ DownloadFails

SpecDownload == InitViewer /\ [][NextDownload]_vars

-----------------------------------------------------------------------------
(* Delivery intake and review gate: properties *)

\* Step predicates over <<state, next state>>: upload k settled in this step.
Resolved(k) == k <= Len(uploads) /\ uploads[k].blob = "pending" /\ uploads'[k].blob = "url"
Rejected(k) == k <= Len(uploads) /\ uploads[k].blob = "pending" /\ uploads'[k].blob = "error"

BothPresent(sub) == Truthy(sub.resultRemoveUrl) /\ Truthy(sub.resultAddUrl)

\* The record before any delivery: neither result, status processing.
PreDelivery(c) ==
    c.status = "processing" /\ ~Truthy(c.resultRemoveUrl) /\ ~Truthy(c.resultAddUrl)

\* C1: FURNITURE_BOTH, a remove and an add delivery both started from the same
\* pre-delivery record (neither result, status processing) and both committed,
\* in either order, with no other delivery: the stored status is reviewing.
C1_ConcurrentStagesReachReviewing ==
    \A i, j \in 1..Len(uploads) :
        ( /\ Len(uploads) = 2
          /\ uploads[i].id = uploads[j].id
          /\ uploads[i].type = "remove" /\ uploads[j].type = "add"
          /\ uploads[i].submission.plan = FURNITURE_BOTH
          /\ PreDelivery(uploads[i].submission)
          /\ uploads[j].submission = uploads[i].submission
          /\ uploads[i].outcome = "delivered" /\ uploads[j].outcome = "delivered" )
        => submissions[uploads[i].id].status = "reviewing"

\* C2: FURNITURE_BOTH, a delivery that sees the record left by the previous
\* one: it sets status reviewing iff after its write both resultRemoveUrl and
\* resultAddUrl are present, and with one stage present the status is not
\* past processing.
C2_SequentialBothStages ==
    [][ \A k \in 1..Len(uploads) :
          LET id == uploads[k].id IN
          ( /\ Resolved(k)
            /\ submissions[id].plan = FURNITURE_BOTH
            /\ uploads[k].submission = Captured(submissions[id]) )
          => /\ submissions'[id].status = "reviewing" <=> BothPresent(submissions'[id])
             /\ ~BothPresent(submissions'[id])
                  => submissions'[id].status \in {"pending", "processing"} ]_vars

\* Witness of C2: the second stage was delivered on top of the first and the
\* submission is under review.
C2_Witness ==
    \E k \in 1..Len(uploads) :
        /\ uploads[k].outcome = "delivered"
        /\ uploads[k].submission.plan = FURNITURE_BOTH
        /\ uploads[k].type = "add"
        /\ Truthy(uploads[k].submission.resultRemoveUrl)
        /\ ~Truthy(uploads[k].submission.resultAddUrl)
        /\ submissions[uploads[k].id].status = "reviewing"

\* C3: for a plan other than FURNITURE_BOTH every successful delivery writes
\* status reviewing, whatever the status was.
C3_SingleResultSetsReviewing ==
    [][ \A k \in 1..Len(uploads) :
          (Resolved(k) /\ submissions[uploads[k].id].plan # FURNITURE_BOTH)
          => submissions'[uploads[k].id].status = "reviewing" ]_vars

\* Witness of C3: a single result was delivered to a submission that was not
\* in processing when the upload started, and it is under review.
C3_Witness ==
    \E k \in 1..Len(uploads) :
        /\ uploads[k].outcome = "delivered"
        /\ uploads[k].type = "single"
        /\ uploads[k].submission.status = "completed"
        /\ submissions[uploads[k].id].status = "reviewing"

\* C4: once completed, the status of a submission never changes.
C4_CompletedIsFinal ==
    [][ \A id \in Ids :
          submissions[id].status = "completed" => submissions'[id].status = "completed" ]_vars

C6_ApproveFromReviewing ==
    /\ [][ issued'.op = "onApprove"
             => /\ submissions[issued'.id].status = "reviewing"
                /\ submissions'[issued'.id].status = "completed" ]_vars
    /\ [](\A id \in Ids : isDone(submissions[id]) => ~ENABLED Approve(id))

\* Witness of C6: an approve has just completed a submission.
C6_Witness == issued.op = "onApprove" /\ submissions[issued.id].status = "completed"

\* C7: reject is issued only for a submission in reviewing and leaves it
\* processing.
C7_RejectFromReviewing ==
    [][ issued'.op = "onReject"
          => /\ submissions[issued'.id].status = "reviewing"
             /\ submissions'[issued'.id].status = "processing" ]_vars

\* C8: an approve or reject applied to a submission that is not in reviewing
\* at that moment leaves its status unchanged.
C8_WrongStatusIsNoOp ==
    [][ ( /\ issued'.op \in {"onApprove", "onReject"}
          /\ submissions[issued'.id].status # "reviewing" )
          => submissions'[issued'.id].status = submissions[issued'.id].status ]_vars

\* C9: for a viewer who is not an admin no approve or reject is issued and
\* no reject dialog is open.
C9_ReviewIsAdminOnly ==
    user.role # "admin" => issued.op \notin {"onApprove", "onReject"} /\ rejectingId = Null

\* Witness of C9: an editor looks at a row that is under review.
C9_Witness ==
    /\ user.role = "editor"
    /\ ~ModalOpen
    /\ \E id \in filteredIds : submissions[id].status = "reviewing"

-----------------------------------------------------------------------------
(* Quote manager: properties *)

\* A typed amount that is not a number, or is a number <= 0.
NotPositiveNumber(str) ==
    ~ ( /\ str # <<>>
        /\ \A i \in 1..Len(str) : str[i] \in DigitChars
        /\ \E i \in 1..Len(str) : str[i] # "0" )

\* C10: Set with an amount that is not a number or is <= 0 makes no store
\* call and changes nothing of the submissions and of the quote edit session.
C10_InvalidAmountWritesNothing ==
    [][ (issued'.op \in {"alert", "dbUpdate"} /\ NotPositiveNumber(quoteAmount))
          => /\ issued'.op = "alert"
             /\ UNCHANGED <<submissions, quoteWrite, isUpdatingQuote, editingQuoteId,
                            quoteAmount, schemaError>> ]_vars

\* Witness of C10: Set was just clicked with an amount that is refused.
C10_Witness ==
    /\ issued.op = "alert"
    /\ NotPositiveNumber(quoteAmount)
    /\ quoteAmount \in {<<"0">>, <<"-", "5">>}

\* C11: a successful quote write changes quotedAmount of its submission and
\* nothing else of any submission: paymentStatus, status and the result URLs
\* are as before.
C11_QuoteWritesOnlyQuotedAmount ==
    [][ (quoteWrite.result = "pending" /\ quoteWrite'.result = "ok")
          => /\ submissions' =
                  [submissions EXCEPT ![quoteWrite.id].quotedAmount = quoteWrite.amount]
             /\ submissions'[quoteWrite.id].paymentStatus
                  = submissions[quoteWrite.id].paymentStatus ]_vars

\* Witness of C11: a quote was written and the submission still waits for payment.
C11_Witness ==
    /\ quoteWrite.result = "ok"
    /\ submissions[quoteWrite.id].quotedAmount = quoteWrite.amount
    /\ submissions[quoteWrite.id].paymentStatus = "quote_pending"

\* C12: a write failure that is not a missing column does not raise the
\* schema error with the migration statement.
C12_SchemaErrorOnlyForMissingColumn ==
    [][ (quoteWrite.result = "pending" /\ quoteWrite'.result = "write_failed")
          => schemaError' # MigrationSql ]_vars

-----------------------------------------------------------------------------
(* Result URLs written by a delivery *)

\* C19: a delivery of type add or single sets resultAddUrl and resultDataUrl of
\* its submission to the one URL of the uploaded blob and leaves resultRemoveUrl
\* alone; a delivery of type remove sets resultRemoveUrl and leaves the other two
\* alone.
C19_DeliveryWritesItsStageUrls ==
    [][ \A k \in 1..MaxUploads :
          Resolved(k) =>
            LET u == uploads[k]
                url == PublicUrl(u.id, u.type)
                old == submissions[u.id]
                new == submissions'[u.id]
            IN  IF u.type = "remove"
                THEN /\ new.resultRemoveUrl = url
                     /\ new.resultAddUrl = old.resultAddUrl
                     /\ new.resultDataUrl = old.resultDataUrl
                ELSE /\ new.resultAddUrl = url
                     /\ new.resultDataUrl = url
                     /\ new.resultRemoveUrl = old.resultRemoveUrl ]_vars

\* Both stages of one submission were delivered.
C19_Witness ==
    \E i \in Ids :
        /\ submissions[i].resultRemoveUrl = PublicUrl(i, "remove")
        /\ submissions[i].resultAddUrl = PublicUrl(i, "add")
        /\ submissions[i].resultDataUrl = PublicUrl(i, "add")

-----------------------------------------------------------------------------
(* Messaging tracker: properties *)

\* The positions in allMessages of the messages of submission i.
MessagesOf(i) == {n \in 1..Len(allMessages) : allMessages[n].submission_id = i}

\* The most recent message of i: the largest timestamp, the earliest position
\* among equal timestamps.
MostRecent(i) ==
    CHOOSE n \in MessagesOf(i) :
        \A k \in MessagesOf(i) :
            \/ allMessages[n].timestamp > allMessages[k].timestamp
            \/ allMessages[n].timestamp = allMessages[k].timestamp /\ n <= k

\* C14: hasNew of a submission is true exactly when it has a message, the most
\* recent one was sent by a user, and its timestamp is greater than the
\* last-read value of the submission (0 when there is no marker).
C14_HasNewIffUnreadUserMessage ==
    \A i \in Ids :
        submissionChatInfo[i].hasNew <=>
            /\ MessagesOf(i) # {}
            /\ allMessages[MostRecent(i)].sender_role = "user"
            /\ allMessages[MostRecent(i)].timestamp > lastReadMap[i]

\* A user message is flagged although the submission has a last-read marker,
\* and another submission's user message is not, being no later than its marker.
C14_Witness ==
    \E i, j \in Ids :
        /\ submissionChatInfo[i].hasNew
        /\ lastReadMap[i] > 0
        /\ submissionChatInfo[i].count >= 2
        /\ ~submissionChatInfo[j].hasNew
        /\ MessagesOf(j) # {}
        /\ allMessages[MostRecent(j)].sender_role = "user"

\* C15: count of a submission is the number of messages carrying its id, and
\* lastMessage is its message with the largest timestamp, the earliest in
\* input order among equal timestamps (none when it has no message).
C15_CountAndLastMessagePerSubmission ==
    \A i \in Ids :
        /\ submissionChatInfo[i].count = Cardinality(MessagesOf(i))
        /\ submissionChatInfo[i].lastMessage =
              IF MessagesOf(i) = {} THEN 0 ELSE MostRecent(i)

\* Three messages of one submission, the last two with equal timestamps: the
\* earlier of the two is lastMessage.
C15_Witness ==
    \E i \in Ids :
        /\ submissionChatInfo[i].count = 3
        /\ submissionChatInfo[i].lastMessage = 2
        /\ allMessages[2].timestamp = allMessages[3].timestamp
        /\ allMessages[1].timestamp < allMessages[2].timestamp

-----------------------------------------------------------------------------
(* Queue filters: properties *)

StaffOperations == {"onDeliver", "dbUpdate", "onApprove", "onReject", "onAssign"}

NoUnpaidListed == \A i \in filteredIds : submissions[i].paymentStatus # "unpaid"

\* C16: whatever the status filter, the my-assignments toggle and the message
\* log, no submission with paymentStatus unpaid is in filteredSubmissions, and
\* no delivery, quote write, approval, rejection or assignment is issued for a
\* submission that is unpaid.
C16_UnpaidNeverInQueue ==
    [][ /\ NoUnpaidListed
        /\ NoUnpaidListed'
        /\ issued'.op \in StaffOperations
              => submissions[issued'.id].paymentStatus # "unpaid" ]_vars

\* An unpaid order matches the status filter and has a message, and is not
\* listed; an operation was just issued for the listed order.
C16_Witness ==
    /\ submissions["S2"].paymentStatus = "unpaid"
    /\ statusFilter = submissions["S2"].status
    /\ submissionChatInfo["S2"].count > 0
    /\ filteredIds = {"S1"}
    /\ issued.op \in StaffOperations
    /\ issued.id = "S1"

-----------------------------------------------------------------------------
(* Comparison viewer: properties *)

\* A step in which DetailModal is mounted.
ViewerOpens == viewingDetail = NoDetail /\ viewingDetail' # NoDetail

\* A step in which a pointer event was handled.
PointerEvent(kind) == pointer' # pointer /\ pointer'.kind = kind

\* The position the viewer is to show for pointer event p.
ClampedPosition(p) ==
    IF p.clientX < p.left THEN 0
    ELSE IF p.clientX > p.left + p.width THEN 100
    ELSE ((p.clientX - p.left) * 100) \div p.width

\* C17: the slider position is always within 0..100; it is 50 when the viewer
\* opens, and every press, and every move during a drag, sets it to the pointer's
\* offset in the container as a percentage of the container's width, 0 for a
\* pointer left of the container and 100 for a pointer right of it.
C17_SliderPositionClamped ==
    [][ /\ sliderPos \in 0..100
        /\ sliderPos' \in 0..100
        /\ ViewerOpens => sliderPos' = 50
        /\ (PointerEvent("start") \/ (PointerEvent("move") /\ isDragging))
              => sliderPos' = ClampedPosition(pointer') ]_vars

\* A drag has taken the pointer to the left of the container.
C17_Witness ==
    /\ pointer.kind = "move"
    /\ pointer.clientX < pointer.left
    /\ isDragging
    /\ sliderPos = 0

\* C18: a press starts a drag and sets the position at once; a move during a
\* drag sets the position and the drag goes on; a release, wherever the pointer
\* is, ends the drag and leaves the position; nothing else starts or ends a drag
\* while the viewer is open.
C18_DragSession ==
    [][ /\ PointerEvent("start")
              => isDragging' /\ sliderPos' = ClampedPosition(pointer')
        /\ (PointerEvent("move") /\ isDragging)
              => isDragging' /\ sliderPos' = ClampedPosition(pointer')
        /\ PointerEvent("end")
              => ~isDragging' /\ sliderPos' = sliderPos
        /\ (isDragging' # isDragging /\ viewingDetail' # NoDetail)
              => PointerEvent(IF isDragging THEN "end" ELSE "start") ]_vars

\* A drag that reached the right edge was ended by a release outside the container.
C18_Witness ==
    /\ pointer.kind = "end"
    /\ pointer.clientX > pointer.left + pointer.width
    /\ ~isDragging
    /\ sliderPos = 100

\* C20: the viewer opens on stage remove exactly when the plan is
\* FURNITURE_BOTH, the remove result exists and the add result does not, and on
\* add otherwise; for any other plan the stage is add as long as the viewer is
\* open; the after-image is resultRemoveUrl on stage remove, and on stage add
\* resultAddUrl, or resultDataUrl when there is no resultAddUrl.
C20_StageAndAfterImage ==
    [][ /\ ViewerOpens =>
              (activeStage' = "remove" <=>
                  /\ viewingDetail'.plan = FURNITURE_BOTH
                  /\ viewingDetail'.resultRemoveUrl # NoUrl
                  /\ viewingDetail'.resultAddUrl = NoUrl)
        /\ viewingDetail' # NoDetail =>
              /\ activeStage' \in {"remove", "add"}
              /\ viewingDetail'.plan # FURNITURE_BOTH => activeStage' = "add"
              /\ activeStage' = "remove" => afterImageUrl' = viewingDetail'.resultRemoveUrl
              /\ (activeStage' = "add" /\ viewingDetail'.resultAddUrl # NoUrl)
                    => afterImageUrl' = viewingDetail'.resultAddUrl
              /\ (activeStage' = "add" /\ viewingDetail'.resultAddUrl = NoUrl)
                    => afterImageUrl' = viewingDetail'.resultDataUrl ]_vars

\* The viewer is open on a two-stage order whose remove result alone exists,
\* still on the stage it opened with.
C20_Witness ==
    /\ viewingDetail.plan = FURNITURE_BOTH
    /\ viewingDetail.resultRemoveUrl # NoUrl
    /\ viewingDetail.resultAddUrl = NoUrl
    /\ activeStage = "remove"
    /\ afterImageUrl = viewingDetail.resultRemoveUrl
    /\ pointer = NoPointer

-----------------------------------------------------------------------------
(* Payment step: properties *)

CheckoutIssued == issued'.op = "onTriggerCheckout" /\ issued' # issued

-----------------------------------------------------------------------------
(* Repeated, stale and concurrent deliveries *)

\* The result URL a delivery of stage type leaves in submission sub.
StageUrl(sub, type) == IF type = "remove" THEN sub.resultRemoveUrl ELSE sub.resultAddUrl

\* The result URL of the other stage of a two-stage plan.
SiblingUrl(sub, type) == IF type = "remove" THEN sub.resultAddUrl ELSE sub.resultRemoveUrl

\* The record of upload j's submission is as delivery j left it: its stage URL
\* and the status j wrote are there, and the other stage is as j read it.
RecordAsLeftBy(j) ==
    LET u == uploads[j]
        sub == submissions[u.id]
    IN  /\ u.outcome = "delivered"
        /\ StageUrl(sub, u.type) = PublicUrl(u.id, u.type)
        /\ sub.status = NewStatus(u.submission, u.type)
        /\ SiblingUrl(sub, u.type) = SiblingUrl(u.submission, u.type)

\* C25: when a stage of a submission was delivered and the same stage is
\* delivered again, by a handler that read the record either as the first
\* delivery read it or as the first delivery left it, and the record still is
\* as the first delivery left it, the second delivery changes nothing.
C25_RedeliveryIsIdempotent ==
    [][ \A j, k \in 1..MaxUploads :
          ( /\ j # k
            /\ j <= Len(uploads)
            /\ Resolved(k)
            /\ uploads[j].id = uploads[k].id
            /\ uploads[j].type = uploads[k].type
            /\ RecordAsLeftBy(j)
            /\ \/ uploads[k].submission = uploads[j].submission
               \/ uploads[k].submission = Captured(submissions[uploads[k].id]) )
          => submissions' = submissions ]_vars

\* The same stage was delivered twice, the second time by a handler that had
\* read the record with the first delivery's result in it.
C25_Witness ==
    \E j, k \in 1..Len(uploads) :
        /\ j < k
        /\ uploads[j].id = uploads[k].id
        /\ uploads[j].type = uploads[k].type
        /\ uploads[k].outcome = "delivered"
        /\ StageUrl(uploads[k].submission, uploads[k].type) = PublicUrl(uploads[k].id, uploads[k].type)
        /\ RecordAsLeftBy(j)

\* The delivery of upload k, going by the record it read and its own stage,
\* does not have both stage results.
IncompleteByItsRead(k) ==
    LET u == uploads[k]
    IN  /\ u.submission.plan = FURNITURE_BOTH
        /\ ~ ( /\ (u.type = "remove" \/ Truthy(u.submission.resultRemoveUrl))
               /\ (u.type = "add" \/ Truthy(u.submission.resultAddUrl)) )

\* C26: a delivery to a FURNITURE_BOTH submission that, by the record it read,
\* does not complete the two stage results leaves the stored status as it is at
\* the moment of the write, whatever happened to it since the read.
C26_IncompleteDeliveryKeepsStatus ==
    [][ \A k \in 1..MaxUploads :
          (Resolved(k) /\ IncompleteByItsRead(k))
            => submissions'[uploads[k].id].status = submissions[uploads[k].id].status ]_vars

\* C27: every delivered stage keeps its URL: the record holds the remove
\* upload's URL in resultRemoveUrl and the add (or single) upload's URL in
\* resultAddUrl, in whatever order deliveries of the two stages were committed.
C27_NoResultUrlLost ==
    \A k \in 1..Len(uploads) :
        uploads[k].outcome = "delivered"
          => StageUrl(submissions[uploads[k].id], uploads[k].type)
               = PublicUrl(uploads[k].id, uploads[k].type)

\* The remove and the add delivery of one submission were both started before
\* either was committed, and both are committed.
C27_Witness ==
    \E j, k \in 1..Len(uploads) :
        /\ uploads[j].id = uploads[k].id
        /\ uploads[j].type = "remove" /\ uploads[k].type = "add"
        /\ uploads[j].outcome = "delivered" /\ uploads[k].outcome = "delivered"
        /\ ~Truthy(uploads[j].submission.resultAddUrl)
        /\ ~Truthy(uploads[k].submission.resultRemoveUrl)
        /\ submissions[uploads[j].id].resultRemoveUrl = PublicUrl(uploads[j].id, "remove")
        /\ submissions[uploads[j].id].resultAddUrl = PublicUrl(uploads[j].id, "add")

-----------------------------------------------------------------------------
(* Quote manager: who may write, what is overwritten, what a failure leaves *)

QuoteWriteIssued == issued'.op = "dbUpdate"

\* C23: a write of quotedAmount is issued only while the viewing user's role
\* is admin.
C23_QuoteWriteIsAdminOnly ==
    [][ QuoteWriteIssued => user.role = "admin" ]_vars

\* C24: a successful quote write leaves its amount in quotedAmount whatever
\* amount was there before, and no other step changes a quotedAmount; so the
\* quotedAmount of a submission is the amount of the last successful write to it.
C24_LastQuoteWins ==
    [][ /\ (quoteWrite.result = "pending" /\ quoteWrite'.result = "ok")
              => submissions'[quoteWrite.id].quotedAmount = quoteWrite.amount
        /\ \A i \in Ids :
              submissions'[i].quotedAmount # submissions[i].quotedAmount
                => /\ quoteWrite.result = "pending" /\ quoteWrite'.result = "ok"
                   /\ quoteWrite.id = i ]_vars

\* A quote of 50 replaced a quote of 7.
C24_Witness ==
    /\ quoteWrite.result = "ok"
    /\ quoteWrite.amount = 50
    /\ quoteWrite.replaced = 7
    /\ submissions[quoteWrite.id].quotedAmount = 50

\* C28: when the store write of a quote fails, no submission changes, no
\* refresh is issued, and the edit session is as it was: the row under edit and
\* the typed amount are kept; only the in-progress flag is cleared and the
\* error is shown.
C28_FailedQuoteWriteKeepsSession ==
    [][ (quoteWrite.result = "pending" /\ quoteWrite'.result \in WriteFailures)
          => /\ submissions' = submissions
             /\ issued'.op # "onRefresh"
             /\ editingQuoteId' = editingQuoteId
             /\ quoteAmount' = quoteAmount
             /\ ~isUpdatingQuote' ]_vars

\* A write of 50 failed; the row is still under edit with 50 typed, and the
\* submission has no quote.
C28_Witness ==
    /\ quoteWrite.result \in WriteFailures
    /\ editingQuoteId = quoteWrite.id
    /\ quoteAmount = <<"5", "0">>
    /\ submissions[quoteWrite.id].quotedAmount = NoAmount
    /\ issued.op # "onRefresh"
    /\ ~isUpdatingQuote

\* C29: a quote write is issued only for a submission that, in the current
\* submission list, has plan FLOOR_PLAN_CG, paymentStatus quote_pending and a
\* status other than completed.
C29_QuoteWriteOnlyWhileQuotePending ==
    [][ QuoteWriteIssued =>
          /\ submissions[issued'.id].plan = FLOOR_PLAN_CG
          /\ submissions[issued'.id].paymentStatus = "quote_pending"
          /\ submissions[issued'.id].status # "completed" ]_vars

\* A quote was written for a quote-gated order, and the order was completed
\* afterwards while still waiting for payment.
C29_Witness ==
    \E i \in Ids :
        /\ submissions[i].plan = FLOOR_PLAN_CG
        /\ submissions[i].paymentStatus = "quote_pending"
        /\ submissions[i].status = "completed"
        /\ submissions[i].quotedAmount = 7
        /\ quoteWrite = [id |-> i, amount |-> 7, result |-> "ok", replaced |-> NoAmount]

-----------------------------------------------------------------------------
(* Downloads: properties *)

DownloadEnds == DownloadInFlight /\ download'.phase \notin {"fetch", "blob"}

\* C21: a download ends in one of two ways. When the fetch or the blob read
\* fails, the URL the download was started with is opened directly and nothing
\* is offered; when both succeed, the file is offered and no URL is opened.
C21_DownloadFallsBackToOpen ==
    [][ /\ DownloadEnds =>
              /\ download'.url = download.url
              /\ \/ /\ download'.phase = "opened"
                    /\ download'.opened = download.url
                    /\ download'.offered = NoUrl
                    /\ issued'.op = "windowOpen"
                 \/ /\ download'.phase = "saved"
                    /\ download.phase = "blob"
                    /\ download'.offered = download.url
                    /\ download'.opened = NoUrl
                    /\ issued'.op = "linkClick"
        /\ issued'.op \in {"windowOpen", "linkClick"} => DownloadEnds ]_vars

\* A download of the shown result failed, and the result URL was opened.
C21_Witness ==
    /\ download.phase = "opened"
    /\ download.opened = afterImageUrl
    /\ Truthy(afterImageUrl)
    /\ download.offered = NoUrl
    /\ issued.op = "windowOpen"
    /\ ~isDownloading

\* The step starts one message fetch, called by trigger.
FetchStarts(trigger) ==
    /\ Len(loads') = Len(loads) + 1
    /\ SubSeq(loads', 1, Len(loads)) = loads
    /\ loads'[Len(loads')].trigger = trigger

\* C22: the mount effect starts one message fetch; while the interval is set,
\* time passes beyond five seconds since the last firing only through a firing
\* that starts one fetch; each close of a chat view by the viewer starts one
\* fetch; nothing else starts a fetch, and once the interval is cleared no
\* step starts one, however much time passes.
C22_RefreshSchedule ==
    [][ /\ (interval = "none" /\ interval' = "set") => FetchStarts("mount")
        /\ (interval = "set" /\ timer = PollInterval /\ timer' # timer) =>
              timer' = 0 /\ FetchStarts("tick")
        /\ (chattingSubmission # Null /\ chattingSubmission' = Null /\ interval' = "set") =>
              FetchStarts("close")
        /\ Len(loads') > Len(loads) =>
              \/ FetchStarts("mount") /\ interval = "none"
              \/ FetchStarts("tick") /\ interval = "set" /\ timer = PollInterval
              \/ FetchStarts("close") /\ interval = "set" /\ chattingSubmission # Null
        /\ interval = "cleared" => Len(loads') <= Len(loads) /\ interval' = "cleared" ]_vars

\* The dashboard was torn down while a fetch of a firing and a fetch of a chat
\* close were awaited, and a whole interval has passed since.
C22_Witness ==
    /\ interval = "cleared"
    /\ timer = PollInterval
    /\ Len(loads) = 2
    /\ loads[1].trigger = "tick"
    /\ loads[2].trigger = "close"

\* A loadAllMessages call with one of the triggers settles while the dashboard
\* is mounted.
LoadSettles(triggers) ==
    /\ interval = "set"
    /\ \E k \in 1..Len(loads) : /\ loads' = RemoveAt(loads, k)
                                /\ loads[k].trigger \in triggers

\* The timestamp of the latest fetched message of a submission, 0 without one.
LatestTimestamp(msgs, id) ==
    LET stamps == {msgs[n].timestamp : n \in {k \in 1..Len(msgs) : msgs[k].submission_id = id}}
    IN  IF stamps = {} THEN 0 ELSE CHOOSE s \in stamps : \A o \in stamps : o <= s

\* allMessages' holds a message of a user for the submission that is newer
\* than the stored marker.
NewerUserMessage(id) ==
    \E n \in 1..Len(allMessages') :
        /\ allMessages'[n].submission_id = id
        /\ allMessages'[n].sender_role = "user"
        /\ allMessages'[n].timestamp > markers[id]

\* C30: a refresh of a firing of the interval or of a chat close either fails
\* and changes nothing, or leaves in lastReadMap the stored marker of every
\* submission of the current list, whenever the submission joined; and when
\* the refresh of a firing settles, a submission of the list whose stored
\* marker has reached its latest fetched message, and which showed no unread
\* message, shows one only when a newer message of a user was fetched.
C30_RefreshKeepsMarkersOfCurrentList ==
    [][ /\ LoadSettles({"tick", "close"}) =>
              \/ allMessages' = allMessages /\ lastReadMap' = lastReadMap
              \/ \A i \in listIds : lastReadMap'[i] = markers[i]
        /\ LoadSettles({"tick"}) =>
              \A i \in listIds :
                  ( /\ markers[i] >= LatestTimestamp(allMessages, i)
                    /\ ~submissionChatInfo[i].hasNew
                    /\ submissionChatInfo'[i].hasNew ) => NewerUserMessage(i) ]_vars

\* C31: the amount a quote write carries for a submission was entered while
\* the quote editor of that submission was open.
C31_QuoteAmountEnteredForSameSubmission ==
    [][ QuoteWriteIssued => quoteTypedFor = issued'.id ]_vars

\* C32: a note forwarded with a rejection of a submission was entered while
\* the reject dialog of that submission was open; a dialog opened after a
\* cancelled one forwards no note of the cancelled one.
C32_RejectNoteEnteredForSameSubmission ==
    [][ (issued'.op = "onReject" /\ rejectingId # Null /\ issued'.note # "") =>
            noteTypedFor = issued'.id ]_vars

\* C33: isUpdatingQuote is true exactly while a quote write is awaited; a
\* write is issued only while it is false, and sets it; when the write
\* settles, in success or in failure, it is false again; and a success closes
\* the edit session (no row under edit, no typed amount, no schema error) and
\* requests a refresh.
C33_OneQuoteWriteInFlight ==
    [][ /\ isUpdatingQuote' <=> quoteWrite'.result = "pending"
        /\ QuoteWriteIssued =>
              /\ ~isUpdatingQuote
              /\ quoteWrite.result # "pending"
              /\ isUpdatingQuote'
        /\ (quoteWrite.result = "pending" /\ quoteWrite' # quoteWrite) =>
              /\ quoteWrite'.result \in {"ok"} \cup WriteFailures
              /\ quoteWrite'.id = quoteWrite.id
              /\ ~isUpdatingQuote'
        /\ (quoteWrite.result = "pending" /\ quoteWrite'.result = "ok") =>
              /\ editingQuoteId' = Null
              /\ quoteAmount' = <<>>
              /\ schemaError' = Null
              /\ issued' = Call("onRefresh", quoteWrite.id) ]_vars

\* A quote write is awaited while the editor of the other submission is open
\* with an amount the Set button would accept.
C33_Witness ==
    /\ isUpdatingQuote
    /\ quoteWrite.result = "pending"
    /\ editingQuoteId \in Ids \ {quoteWrite.id}
    /\ QuoteControls(editingQuoteId)
    /\ quoteAmount = <<"5", "0">>

C35_MoveWithoutDragKeepsPosition ==
    [][ /\ (PointerEvent("move") /\ ~isDragging) =>
              sliderPos' = sliderPos /\ ~isDragging'
        /\ ( /\ ~isDragging
             /\ viewingDetail # NoDetail
             /\ viewingDetail' # NoDetail
             /\ sliderPos' # sliderPos ) => PointerEvent("start") ]_vars

\* After a drag to the right edge was ended, the pointer has moved to the left
\* of the container, and the slider is still at the right edge.
C35_Witness ==
    /\ pointer.kind = "move"
    /\ pointer.clientX < pointer.left
    /\ ~isDragging
    /\ sliderPos = 100

-----------------------------------------------------------------------------
(* The queue under its filters: properties *)

Elements(seq) == {seq[n] : n \in 1..Len(seq)}

\* The submissions the queue can show: paid or waiting for the payment of a
\* quote, and assigned to the editor when my-assignments is on.
Visible ==
    {i \in listIds :
        /\ submissions[i].paymentStatus \in {"paid", "quote_pending"}
        /\ (showOnlyMine /\ user.editorRecordId # "")
              => submissions[i].assignedEditorId = user.editorRecordId}

HasMessage(id) == \E n \in 1..Len(allMessages) : allMessages[n].submission_id = id

\* C36: the queue lists no submission twice; under the comments filter it
\* lists exactly the visible submissions with a message, each before every
\* submission whose latest message is older; under a status filter it lists
\* exactly the visible submissions of that status.
C36_QueueUnderFilters ==
    LET queue == filteredSubmissions IN
    /\ Cardinality(Elements(queue)) = Len(queue)
    /\ Elements(queue) = filteredIds
    /\ statusFilter = "comments" =>
          /\ Elements(queue) = {i \in Visible : HasMessage(i)}
          /\ \A a, b \in 1..Len(queue) :
                LatestTimestamp(allMessages, queue[a]) > LatestTimestamp(allMessages, queue[b])
                   => a < b
    /\ statusFilter \in {"pending", "processing", "reviewing", "completed"} =>
          Elements(queue) = {i \in Visible : submissions[i].status = statusFilter}

\* Under the comments filter the second submission of the list comes first,
\* because its latest message is the newer one.
C36_Witness ==
    /\ statusFilter = "comments"
    /\ filteredSubmissions = <<"S2", "S1">>
    /\ LatestTimestamp(allMessages, "S2") > LatestTimestamp(allMessages, "S1")

====
